---- MODULE Spec2Model ----
(***************************************************************************)
(* Model of the MAIA Python SDK (sdk/python/maia): the synchronous client  *)
(* MAIAClient and the asynchronous client AsyncMAIAClient, their transport *)
(* adapter _request, the per-operation validation and request building,    *)
(* the convenience methods remember, recall and forget, the life cycle of  *)
(* a client (close, with statement), concurrent calls on one asynchronous  *)
(* client, and the error taxonomy of errors.py.                            *)
(*                                                                         *)
(* Python values are encoded as follows.                                   *)
(*   - str            a sequence of one-character strings                  *)
(*   - Optional[X]    a set with at most one element: None is {}, and a    *)
(*                    present value v is {v}                               *)
(*   - a pydantic input object: a record of its declared fields            *)
(*   - a dict         a function from its keys                             *)
(*   - a JSON value   a record [t, s, o]: t the JSON kind, s the scalar    *)
(*                    as written in the document, o the members of an      *)
(*                    object                                               *)
(***************************************************************************)
EXTENDS Integers, Sequences, FiniteSets, TLC

VARIABLES
    sent,      \* sent[c]: calls of self._client.request made by client c
    passed,    \* passed[c]: calls on client c that got past validation
    last,      \* the most recent call: its client, operation, arguments,
               \* the request handed to the transport, what the transport
               \* answered and how the call ended
    qin,       \* path building on its own: the operation and identifier
    qout,      \* path building on its own: the path that was built
    ein,       \* an APIError on its own: the arguments it was built from
    eout,      \* an APIError on its own: what its helper methods answered
    closes,    \* closes[c]: calls of self._client.close() / aclose() made
               \* by client c
    base_url,  \* base_url[c]: the attribute self.base_url of client c
    scope,     \* scope[c]: the with / async with statement over client c
    inflight   \* inflight[s]: the call of the asynchronous client that is
               \* suspended at its await of self._client.request in slot s

callVars == <<sent, passed, last>>
pathVars == <<qin, qout>>
errVars == <<ein, eout>>
lifeVars == <<closes, base_url, scope>>
vars == <<sent, passed, last, qin, qout, ein, eout, closes, base_url, scope,
          inflight>>

(***************************************************************************)
(* Bounds                                                                  *)
(***************************************************************************)
MaxCalls == 2      \* requests issued per client
MaxIdLen == 1      \* length of an identifier argument of an operation
MaxQuoteLen == 2   \* length of an identifier when paths are built alone
MaxCloses == 1     \* calls of close per client
MaxInFlight == 2   \* calls of the asynchronous client suspended at once

(***************************************************************************)
(* Python values                                                           *)
(***************************************************************************)
None == {}
Some(v) == {v}
the(o) == CHOOSE v \in o : TRUE

\* Python truthiness of an Optional[str]: None and "" are falsy.
truthy_str(o) == o # None /\ Len(the(o)) > 0

\* Python truthiness of an Optional[int]: None and 0 are falsy.
truthy_int(o) == o # None /\ the(o) # 0

StringsUpTo(chars, n) == UNION {[1..k -> chars] : k \in 0..n}

Clients == {"MAIAClient", "AsyncMAIAClient"}

(***************************************************************************)
(* errors.py: the exception classes and their bases                        *)
(***************************************************************************)
Bases ==
    [MAIAError |-> "Exception",
     APIError |-> "MAIAError",
     ValidationError |-> "MAIAError",
     NetworkError |-> "MAIAError",
     NotFoundError |-> "APIError",
     AlreadyExistsError |-> "APIError",
     \* raised by the libraries the client calls, never by errors.py
     AttributeError |-> "Exception",
     ValueError |-> "Exception",
     JSONDecodeError |-> "ValueError",
     PydanticValidationError |-> "ValueError",
     Exception |-> "BaseException"]

RECURSIVE isinstance(_, _)
isinstance(exc, cls) ==
    IF exc = cls THEN TRUE
    ELSE IF exc \notin DOMAIN Bases THEN FALSE
    ELSE isinstance(Bases[exc], cls)

\* How a call ends.  kind is "return" or "raise"; exc is the class raised.
NoOutcome ==
    [kind |-> "none", exc |-> "", field |-> "", status_code |-> 0,
     message |-> "", code |-> None, details |-> None, cause |-> "",
     value |-> None]

Return(v) == [NoOutcome EXCEPT !.kind = "return", !.value = v]

\* errors.py 50-56
ValidationError(field, message) ==
    [NoOutcome EXCEPT !.kind = "raise", !.exc = "ValidationError",
                      !.field = field, !.message = message]

\* errors.py 59-65
NetworkError(message, cause) ==
    [NoOutcome EXCEPT !.kind = "raise", !.exc = "NetworkError",
                      !.message = message, !.cause = cause]

\* errors.py 15-26
APIError(status_code, message, code, details) ==
    [NoOutcome EXCEPT !.kind = "raise", !.exc = "APIError",
                      !.status_code = status_code, !.message = message,
                      !.code = code, !.details = details]

\* An exception of a library propagating through the client unchanged.
Propagate(exc) == [NoOutcome EXCEPT !.kind = "raise", !.exc = exc]

\* errors.py 28-30
is_not_found(self) ==
    self.status_code = 404 \/ self.code = Some("NOT_FOUND")

\* errors.py 32-34
is_already_exists(self) ==
    self.status_code = 409 \/ self.code = Some("ALREADY_EXISTS")

\* errors.py 36-38
is_invalid_input(self) ==
    self.status_code = 400 \/ self.code = Some("INVALID_INPUT")

\* is_server_error leaving out the status 500 itself
is_server_error_above_500(self) == self.status_code > 500

\* errors.py 40-42
is_server_error(self) == self.status_code >= 500

\* a string form that appends the code whether or not one is set
__str__always_code(self) ==
    self.message \o " (" \o
        (IF self.code = None THEN "None" ELSE the(self.code)) \o ")"

\* errors.py 44-47
__str__(self) ==
    IF truthy_str(self.code)
    THEN self.message \o " (" \o the(self.code) \o ")"
    ELSE self.message

\* errors.py 68-74
NotFoundError(resource, id) ==
    [APIError(404, resource \o " not found: " \o id, Some("NOT_FOUND"), None)
        EXCEPT !.exc = "NotFoundError"]
    @@ [resource |-> resource, id |-> id]

\* errors.py 77-83
AlreadyExistsError(resource, id) ==
    [APIError(409, resource \o " already exists: " \o id,
              Some("ALREADY_EXISTS"), None)
        EXCEPT !.exc = "AlreadyExistsError"]
    @@ [resource |-> resource, id |-> id]

(***************************************************************************)
(* urllib.parse.quote and the paths of the operations                      *)
(***************************************************************************)
\* The characters strings are made of: unreserved ones and reserved ones.
Alphabet == {"a", "2", "F", "~", "/", "?", "#", "%", " "}

\* The characters of identifiers passed to the operations of a client.
IdChars == {"a", "/"}

\* urllib.parse: _ALWAYS_SAFE, restricted to Alphabet (letters, digits, _.-~)
ALWAYS_SAFE == {"a", "2", "F", "~"}

\* "%XX" of the one byte of an ASCII character
hex(ch) ==
    CASE ch = "/" -> <<"%", "2", "F">>
      [] ch = "?" -> <<"%", "3", "F">>
      [] ch = "#" -> <<"%", "2", "3">>
      [] ch = "%" -> <<"%", "2", "5">>
      [] ch = " " -> <<"%", "2", "0">>
      [] ch = "a" -> <<"%", "6", "1">>
      [] ch = "2" -> <<"%", "3", "2">>
      [] ch = "F" -> <<"%", "4", "6">>
      [] ch = "~" -> <<"%", "7", "E">>

\* quote with its default safe="/" whatever safe is passed
RECURSIVE quote_default_safe(_, _)
quote_default_safe(string, safe) ==
    IF string = <<>> THEN <<>>
    ELSE LET ch == Head(string)
         IN (IF ch \in ALWAYS_SAFE \cup {"/"} THEN <<ch>> ELSE hex(ch))
            \o quote_default_safe(Tail(string), safe)

\* urllib.parse.quote(string, safe): every character that is neither always
\* safe nor in safe is replaced by its %XX escape.
RECURSIVE quote(_, _)
quote(string, safe) ==
    IF string = <<>> THEN <<>>
    ELSE LET ch == Head(string)
         IN (IF ch \in ALWAYS_SAFE \cup safe THEN <<ch>> ELSE hex(ch))
            \o quote(Tail(string), safe)

\* A path is the sequence of its pieces: every "/" the client writes is a
\* piece of its own, the fixed segment names are one piece each, and the
\* quoted identifier contributes its characters.

\* client.py 154, 164, 174: f"/v1/memories/{quote(id, safe='')}"
memory_path(id) == <<"/", "v1", "/", "memories", "/">> \o quote(id, {})

\* client.py 209, 219, 229: f"/v1/namespaces/{quote(id, safe='')}"
namespace_path(id) == <<"/", "v1", "/", "namespaces", "/">> \o quote(id, {})

\* client.py 261: f"/v1/namespaces/{quote(namespace, safe='')}/memories"
namespace_memories_path(namespace) ==
    <<"/", "v1", "/", "namespaces", "/">> \o quote(namespace, {})
        \o <<"/", "memories">>

(***************************************************************************)
(* JSON documents and what the transport can answer                        *)
(***************************************************************************)
J(t, s, o) == [t |-> t, s |-> s, o |-> o]
Str(s) == J("string", s, <<>>)
Num(s) == J("number", s, <<>>)
Bool(s) == J("boolean", s, <<>>)
Arr == J("array", "[]", <<>>)
Obj(o) == J("object", "", o)

MemoryDoc ==
    Obj([id |-> Str("mem-123"), namespace |-> Str("test"),
         content |-> Str("Test memory"), type |-> Str("semantic"),
         created_at |-> Str("2024-01-01T00:00:00Z"),
         updated_at |-> Str("2024-01-01T00:00:00Z"),
         accessed_at |-> Str("2024-01-01T00:00:00Z"),
         access_count |-> Num("0"), confidence |-> Num("1.0"),
         source |-> Str("user")])

NamespaceDoc ==
    Obj([id |-> Str("ns-123"), name |-> Str("test"), config |-> Obj(<<>>),
         created_at |-> Str("2024-01-01T00:00:00Z"),
         updated_at |-> Str("2024-01-01T00:00:00Z")])

ListDoc ==
    Obj([data |-> Arr, count |-> Num("0"), offset |-> Num("0"),
         limit |-> Num("100")])

ContextDoc ==
    Obj([content |-> Str("ctx"), memories |-> Arr, token_count |-> Num("50"),
         token_budget |-> Num("4000"), truncated |-> Bool("false"),
         query_time |-> Str("10ms")])

StatsDoc ==
    Obj([total_memories |-> Num("100"), total_namespaces |-> Num("5"),
         storage_size_bytes |-> Num("1024"),
         last_compaction |-> Str("2024-01-01T00:00:00Z")])

HealthDoc == Obj([status |-> Str("healthy"), service |-> Str("maia")])

\* The response bodies the server is taken to send, named by their kind.
BodyTexts ==
    {"", "OK", "[]", "\"down\"", "null", "{}",
     "{\"error\":\"memory not found\",\"code\":\"NOT_FOUND\"}",
     "{\"error\":\"boom\",\"code\":\"INTERNAL\",\"details\":\"stack\"}",
     "{\"code\":\"ALREADY_EXISTS\"}",
     "{\"deleted\":true}", "{\"deleted\":false}",
     "<memory>", "<namespace>", "<list>", "<context>", "<stats>",
     "{\"status\":\"healthy\",\"service\":\"maia\"}"}

\* json.loads(text): the parsed document, or ValueError (JSONDecodeError)
\* when text is not a JSON document.  "<memory>" and the like stand for the
\* text of the document of that name.
json_loads(text) ==
    CASE text = "" -> [ok |-> FALSE, doc |-> J("", "", <<>>)]
      [] text = "OK" -> [ok |-> FALSE, doc |-> J("", "", <<>>)]
      [] text = "[]" -> [ok |-> TRUE, doc |-> Arr]
      [] text = "\"down\"" -> [ok |-> TRUE, doc |-> Str("down")]
      [] text = "null" -> [ok |-> TRUE, doc |-> J("null", "null", <<>>)]
      [] text = "{}" -> [ok |-> TRUE, doc |-> Obj(<<>>)]
      [] text = "{\"error\":\"memory not found\",\"code\":\"NOT_FOUND\"}" ->
            [ok |-> TRUE,
             doc |-> Obj([error |-> Str("memory not found"),
                          code |-> Str("NOT_FOUND")])]
      [] text = "{\"error\":\"boom\",\"code\":\"INTERNAL\",\"details\":\"stack\"}" ->
            [ok |-> TRUE,
             doc |-> Obj([error |-> Str("boom"), code |-> Str("INTERNAL"),
                          details |-> Str("stack")])]
      [] text = "{\"code\":\"ALREADY_EXISTS\"}" ->
            [ok |-> TRUE, doc |-> Obj([code |-> Str("ALREADY_EXISTS")])]
      [] text = "{\"deleted\":true}" ->
            [ok |-> TRUE, doc |-> Obj([deleted |-> Bool("true")])]
      [] text = "{\"deleted\":false}" ->
            [ok |-> TRUE, doc |-> Obj([deleted |-> Bool("false")])]
      [] text = "<memory>" -> [ok |-> TRUE, doc |-> MemoryDoc]
      [] text = "<namespace>" -> [ok |-> TRUE, doc |-> NamespaceDoc]
      [] text = "<list>" -> [ok |-> TRUE, doc |-> ListDoc]
      [] text = "<context>" -> [ok |-> TRUE, doc |-> ContextDoc]
      [] text = "<stats>" -> [ok |-> TRUE, doc |-> StatsDoc]
      [] text = "{\"status\":\"healthy\",\"service\":\"maia\"}" ->
            [ok |-> TRUE, doc |-> HealthDoc]

\* dict.get(key, default) on the members of a JSON object; the values the
\* client reads this way are strings.
dict_get(o, key, default) ==
    IF key \in DOMAIN o THEN Some(o[key].s) ELSE default

\* The subclasses of httpx.RequestError the transport raises when no
\* response is received.
Causes == {"ConnectError", "ReadTimeout"}

Statuses == {200, 201, 400, 404, 500}

\* What self._client.request does with one request: it raises, or it
\* returns a response with a status code and a body.
NoTransport == [kind |-> "none", cause |-> "", status_code |-> 0, text |-> ""]

TransportOutcomes ==
    [kind : {"error"}, cause : Causes, status_code : {0}, text : {""}]
    \cup [kind : {"response"}, cause : {""}, status_code : Statuses,
          text : BodyTexts]

\* the fallback message without the status
HTTP_without_status(status_code) == "HTTP error"

HTTP(status_code) == "HTTP " \o ToString(status_code)

(***************************************************************************)
(* client.py 80-115 (MAIAClient._request), 389-424 (AsyncMAIAClient)       *)
(* The result of the one call of self._client.request: the exception that  *)
(* leaves _request, or the parsed body (None for an empty body).  sends is *)
(* the number of times _request called the transport.                      *)
(***************************************************************************)
\* client.py 98-115: what MAIAClient._request does with the response
_response(tr) ==
    IF tr.status_code >= 400
    THEN LET parsed == json_loads(tr.text)
         IN IF ~parsed.ok
            THEN \* 107-111: except ValueError
                 [data |-> None,
                  out |-> APIError(tr.status_code,
                                   IF tr.text # "" THEN tr.text
                                   ELSE HTTP(tr.status_code),
                                   None, None)]
            ELSE IF parsed.doc.t # "object"
            THEN \* 103: data.get on a list, str, number or None
                 [data |-> None,
                  out |-> Propagate("AttributeError")]
            ELSE \* 101-106
                 [data |-> None,
                  out |-> APIError(
                      tr.status_code,
                      the(dict_get(parsed.doc.o, "error",
                                   Some(HTTP(tr.status_code)))),
                      dict_get(parsed.doc.o, "code", None),
                      dict_get(parsed.doc.o, "details", None))]
    ELSE IF tr.text # ""
    THEN \* 113-114: return response.json()
         LET parsed == json_loads(tr.text)
         IN IF parsed.ok
            THEN [data |-> Some(parsed.doc), out |-> NoOutcome]
            ELSE [data |-> None,
                  out |-> Propagate("JSONDecodeError")]
    ELSE \* 115: return None
         [data |-> None, out |-> NoOutcome]

\* _request trying the transport a second time after a failure
_request_retry(tr) ==
    IF tr.kind = "error"
    THEN [sends |-> 2, data |-> None,
          out |-> NetworkError("Request failed: " \o tr.cause, tr.cause)]
    ELSE [sends |-> 1, data |-> _response(tr).data,
          out |-> _response(tr).out]

\* client.py 80-96: MAIAClient._request
_request(tr) ==
    IF tr.kind = "error"
    THEN \* 95-96: except httpx.RequestError as e: raise NetworkError(..., e)
         [sends |-> 1, data |-> None,
          out |-> NetworkError("Request failed: " \o tr.cause, tr.cause)]
    ELSE [sends |-> 1, data |-> _response(tr).data,
          out |-> _response(tr).out]

\* client.py 407-424: what AsyncMAIAClient._request does with the response
async_response(tr) ==
    IF tr.status_code >= 400
    THEN LET parsed == json_loads(tr.text)
         IN IF ~parsed.ok
            THEN \* 416-420: except ValueError
                 [data |-> None,
                  out |-> APIError(tr.status_code,
                                   IF tr.text # "" THEN tr.text
                                   ELSE HTTP(tr.status_code),
                                   None, None)]
            ELSE IF parsed.doc.t # "object"
            THEN \* 412: data.get on a list, str, number or None
                 [data |-> None,
                  out |-> Propagate("AttributeError")]
            ELSE \* 410-415
                 [data |-> None,
                  out |-> APIError(
                      tr.status_code,
                      the(dict_get(parsed.doc.o, "error",
                                   Some(HTTP(tr.status_code)))),
                      dict_get(parsed.doc.o, "code", None),
                      dict_get(parsed.doc.o, "details", None))]
    ELSE IF tr.text # ""
    THEN \* 422-423: return response.json()
         LET parsed == json_loads(tr.text)
         IN IF parsed.ok
            THEN [data |-> Some(parsed.doc), out |-> NoOutcome]
            ELSE [data |-> None,
                  out |-> Propagate("JSONDecodeError")]
    ELSE \* 424: return None
         [data |-> None, out |-> NoOutcome]

\* _request raising NetworkError without the failure it wraps
async_request_no_cause(tr) ==
    IF tr.kind = "error"
    THEN [sends |-> 1, data |-> None,
          out |-> NetworkError("Request failed: " \o tr.cause, "")]
    ELSE [sends |-> 1, data |-> async_response(tr).data,
          out |-> async_response(tr).out]

\* client.py 389-405: AsyncMAIAClient._request
async_request(tr) ==
    IF tr.kind = "error"
    THEN \* 404-405: except httpx.RequestError as e: raise NetworkError(..., e)
         [sends |-> 1, data |-> None,
          out |-> NetworkError("Request failed: " \o tr.cause, tr.cause)]
    ELSE [sends |-> 1, data |-> async_response(tr).data,
          out |-> async_response(tr).out]

(***************************************************************************)
(* types.py: the input objects, serialisation and deserialisation          *)
(***************************************************************************)
\* Values of a required str field of an input object.
Texts == {<<>>, <<"a">>}

Ids == StringsUpTo(IdChars, MaxIdLen)

\* An identifier argument: a str, or None.
IdArgs == {None} \cup {Some(id) : id \in Ids}

\* types.py 68-77
CreateMemoryInputs ==
    [namespace : Texts, content : Texts,
     type : {None, Some("semantic")}, metadata : {None},
     tags : {None}, confidence : {None, Some("1.0")},
     source : {None, Some("user")}]

\* types.py 80-86
UpdateMemoryInputs ==
    [content : {None, Some(<<"a">>)}, metadata : {None}, tags : {None},
     confidence : {None, Some("0.5")}]

\* types.py 89-97
SearchMemoriesInputs ==
    [query : {None, Some(<<"a">>)}, namespace : {None}, types : {None},
     tags : {None}, limit : {None, Some(10)}, offset : {None}]

\* types.py 89-97: SearchMemoriesInput(), every field at its default
SearchMemoriesInput ==
    [query |-> None, namespace |-> None, types |-> None, tags |-> None,
     limit |-> None, offset |-> None]

\* types.py 45-53
NamespaceConfigs ==
    [token_budget : {None, Some(4000)}, max_memories : {None},
     retention_days : {None}, allowed_types : {None},
     inherit_from_parent : BOOLEAN, custom_scoring : {None}]

\* types.py 107-113
CreateNamespaceInputs ==
    [name : Texts, parent : {None, Some(<<"p">>)}, template : {None},
     config : {None} \cup {Some(cfg) : cfg \in NamespaceConfigs}]

\* types.py 116-119
UpdateNamespaceInputs == [config : NamespaceConfigs]

\* types.py 122-126
ListOptionsSet ==
    [limit : {None, Some(0), Some(10)}, offset : {None, Some(0), Some(5)}]

\* types.py 141-149
GetContextInputs ==
    [query : Texts, namespace : {None, Some(<<"a">>)},
     token_budget : {None, Some(2000)}, system_prompt : {None},
     include_scores : {None}, min_score : {None}]

\* The fields of each input class that are not Optional.
RequiredFields ==
    [CreateMemoryInput |-> {"namespace", "content"},
     UpdateMemoryInput |-> {},
     SearchMemoriesInput |-> {},
     NamespaceConfig |-> {"inherit_from_parent"},
     CreateNamespaceInput |-> {"name"},
     UpdateNamespaceInput |-> {"config"},
     GetContextInput |-> {"query"}]

\* The fields the input classes of the convenience methods declare.
DeclaredFields ==
    [CreateMemoryInput |->
        {"namespace", "content", "type", "metadata", "tags", "confidence",
         "source"},
     GetContextInput |->
        {"query", "namespace", "token_budget", "system_prompt",
         "include_scores", "min_score"}]

\* cls(**kwargs) of a pydantic model, every keyword argument being a value
\* or None: the object, or None when pydantic rejects the arguments (a
\* field that is not Optional is missing or None).  Fields not given take
\* their default None.
BaseModel(cls, kwargs) ==
    IF \E f \in RequiredFields[cls] : f \notin DOMAIN kwargs \/ kwargs[f] = None
    THEN None
    ELSE Some([f \in DeclaredFields[cls] |->
                 IF f \in RequiredFields[cls] THEN the(kwargs[f])
                 ELSE IF f \in DOMAIN kwargs THEN kwargs[f]
                 ELSE None])

\* BaseModel.model_dump(exclude_none=True) of an object without nested
\* models: the dict of the fields whose value is not None.
dump_flat(cls, obj) ==
    [k \in {f \in DOMAIN obj : f \in RequiredFields[cls] \/ obj[f] # None} |->
        IF k \in RequiredFields[cls] THEN obj[k] ELSE the(obj[k])]

\* model_dump() without exclude_none: every field, None included
model_dump_keep_none(cls, obj) == [k \in DOMAIN obj |-> obj[k]]

\* BaseModel.model_dump(exclude_none=True): as dump_flat, a nested
\* NamespaceConfig (the field config) being dumped the same way.
model_dump(cls, obj) ==
    [k \in {f \in DOMAIN obj : f \in RequiredFields[cls] \/ obj[f] # None} |->
        IF k = "config"
        THEN dump_flat("NamespaceConfig",
                       IF k \in RequiredFields[cls] THEN obj[k]
                       ELSE the(obj[k]))
        ELSE IF k \in RequiredFields[cls] THEN obj[k] ELSE the(obj[k])]

\* types.py 10-24
MemoryType == {"semantic", "episodic", "working"}
MemorySource == {"user", "extracted", "inferred", "imported"}

\* The declared fields of the response classes: the JSON kind a required
\* field must have, and the fields that default to None.
Schema ==
    [HealthResponse |->
        [required |-> [status |-> "string", service |-> "string"],
         optional |-> {}],
     Stats |->
        [required |-> [total_memories |-> "number",
                       total_namespaces |-> "number",
                       storage_size_bytes |-> "number",
                       last_compaction |-> "string"],
         optional |-> {}],
     Memory |->
        [required |-> [id |-> "string", namespace |-> "string",
                       content |-> "string", type |-> "MemoryType",
                       created_at |-> "string", updated_at |-> "string",
                       accessed_at |-> "string", access_count |-> "number",
                       confidence |-> "number", source |-> "MemorySource"],
         optional |-> {"embedding", "metadata", "tags"}],
     Namespace |->
        [required |-> [id |-> "string", name |-> "string",
                       config |-> "object", created_at |-> "string",
                       updated_at |-> "string"],
         optional |-> {"parent", "template"}],
     ListResponse |->
        [required |-> [data |-> "array", count |-> "number",
                       offset |-> "number", limit |-> "number"],
         optional |-> {}],
     ContextResponse |->
        [required |-> [content |-> "string", memories |-> "array",
                       token_count |-> "number", token_budget |-> "number",
                       truncated |-> "boolean", query_time |-> "string"],
         optional |-> {"zone_stats"}]]

\* Whether a JSON value is accepted for a field of the given kind.
accepts(kind, doc) ==
    CASE kind = "MemoryType" -> doc.t = "string" /\ doc.s \in MemoryType
      [] kind = "MemorySource" -> doc.t = "string" /\ doc.s \in MemorySource
      [] OTHER -> doc.t = kind

\* a model_validate that keeps the JSON kind of each member, not its value
model_validate_kinds(cls, data) ==
    LET required == Schema[cls].required
        declared == DOMAIN required \cup Schema[cls].optional
    IN IF /\ data # None
          /\ the(data).t = "object"
          /\ \A f \in DOMAIN required :
                /\ f \in DOMAIN the(data).o
                /\ accepts(required[f], the(data).o[f])
       THEN Return(Some(
                [class |-> cls,
                 fields |-> [f \in declared |->
                                IF f \in DOMAIN the(data).o
                                THEN Some(the(data).o[f].t)
                                ELSE None]]))
       ELSE Propagate("PydanticValidationError")

\* BaseModel.model_validate(data): the object of class cls built from the
\* parsed body, or pydantic's ValidationError when data is not an object
\* with every required field.
model_validate(cls, data) ==
    LET required == Schema[cls].required
        declared == DOMAIN required \cup Schema[cls].optional
    IN IF /\ data # None
          /\ the(data).t = "object"
          /\ \A f \in DOMAIN required :
                /\ f \in DOMAIN the(data).o
                /\ accepts(required[f], the(data).o[f])
       THEN Return(Some(
                [class |-> cls,
                 fields |-> [f \in declared |->
                                IF f \in DOMAIN the(data).o
                                THEN Some(the(data).o[f].s)
                                ELSE None]]))
       ELSE Propagate("PydanticValidationError")

(***************************************************************************)
(* What an operation does before it awaits the transport: it raises, or    *)
(* it hands one request to _request and names the class of its result      *)
(* ("" when the operation returns None whatever the body).                 *)
(***************************************************************************)
Reject(err) ==
    [raise |-> Some(err), method |-> "", path |-> <<>>, json |-> None,
     params |-> None, returns |-> ""]

Send(method, path, json, params, returns) ==
    [raise |-> None, method |-> method, path |-> path, json |-> json,
     params |-> params, returns |-> returns]

\* the query parameters when an option is tested for None only
list_params_sends_zero(options) ==
    LET params ==
          IF options = None THEN <<>>
          ELSE [k \in {f \in {"limit", "offset"} : the(options)[f] # None}
                    |-> the(the(options)[k])]
    IN IF DOMAIN params = {} THEN None ELSE Some(params)

\* client.py 235-242, 252-262: the query parameters of the list operations;
\* an options object is always truthy.
list_params(options) ==
    LET params ==
          IF options = None THEN <<>>
          ELSE [k \in {f \in {"limit", "offset"} : truthy_int(the(options)[f])}
                    |-> the(the(options)[k])]
    IN IF DOMAIN params = {} THEN None ELSE Some(params)

(***************************************************************************)
(* client.py 119-278: the operations of MAIAClient                          *)
(***************************************************************************)
\* client.py 119-122
health == Send("GET", <<"/", "health">>, None, None, "HealthResponse")

\* client.py 124-126
ready == Send("GET", <<"/", "ready">>, None, None, "")

\* client.py 128-131
stats == Send("GET", <<"/", "v1", "/", "stats">>, None, None, "Stats")

\* create_memory without the check of content
create_memory_unchecked_content(input) ==
    IF input.namespace = <<>>
    THEN Reject(ValidationError("namespace", "namespace is required"))
    ELSE Send("POST", <<"/", "v1", "/", "memories">>,
              Some(model_dump("CreateMemoryInput", input)), None, "Memory")

\* client.py 135-147
create_memory(input) ==
    IF input.namespace = <<>>
    THEN Reject(ValidationError("namespace", "namespace is required"))
    ELSE IF input.content = <<>>
    THEN Reject(ValidationError("content", "content is required"))
    ELSE Send("POST", <<"/", "v1", "/", "memories">>,
              Some(model_dump("CreateMemoryInput", input)), None, "Memory")

\* a get_memory that takes a whitespace-only id for a missing one
get_memory_stripped(id) ==
    IF ~truthy_str(id) \/ \A i \in 1..Len(the(id)) : the(id)[i] = " "
    THEN Reject(ValidationError("id", "id is required"))
    ELSE Send("GET", memory_path(the(id)), None, None, "Memory")

\* client.py 149-155
get_memory(id) ==
    IF ~truthy_str(id)
    THEN Reject(ValidationError("id", "id is required"))
    ELSE Send("GET", memory_path(the(id)), None, None, "Memory")

\* client.py 157-167
update_memory(id, input) ==
    IF ~truthy_str(id)
    THEN Reject(ValidationError("id", "id is required"))
    ELSE Send("PUT", memory_path(the(id)),
              Some(model_dump("UpdateMemoryInput", input)), None, "Memory")

\* client.py 169-174
delete_memory(id) ==
    IF ~truthy_str(id)
    THEN Reject(ValidationError("id", "id is required"))
    ELSE Send("DELETE", memory_path(the(id)), None, None, "")

\* client.py 176-188
search_memories(input) ==
    LET given == IF input = None THEN SearchMemoriesInput ELSE the(input)
    IN Send("POST", <<"/", "v1", "/", "memories", "/", "search">>,
            Some(model_dump("SearchMemoriesInput", given)), None,
            "ListResponse")

\* client.py 192-202
create_namespace(input) ==
    IF input.name = <<>>
    THEN Reject(ValidationError("name", "name is required"))
    ELSE Send("POST", <<"/", "v1", "/", "namespaces">>,
              Some(model_dump("CreateNamespaceInput", input)), None,
              "Namespace")

\* client.py 204-210
get_namespace(id_or_name) ==
    IF ~truthy_str(id_or_name)
    THEN Reject(ValidationError("id_or_name", "id or name is required"))
    ELSE Send("GET", namespace_path(the(id_or_name)), None, None,
              "Namespace")

\* client.py 212-222
update_namespace(id, input) ==
    IF ~truthy_str(id)
    THEN Reject(ValidationError("id", "id is required"))
    ELSE Send("PUT", namespace_path(the(id)),
              Some(model_dump("UpdateNamespaceInput", input)), None,
              "Namespace")

\* client.py 224-229
delete_namespace(id) ==
    IF ~truthy_str(id)
    THEN Reject(ValidationError("id", "id is required"))
    ELSE Send("DELETE", namespace_path(the(id)), None, None, "")

\* client.py 231-243
list_namespaces(options) ==
    Send("GET", <<"/", "v1", "/", "namespaces">>, None,
         list_params(options), "ListResponse")

\* client.py 245-264
list_namespace_memories(namespace, options) ==
    IF ~truthy_str(namespace)
    THEN Reject(ValidationError("namespace", "namespace is required"))
    ELSE Send("GET", namespace_memories_path(the(namespace)), None,
              list_params(options), "ListResponse")

\* client.py 268-278
get_context(input) ==
    IF input.query = <<>>
    THEN Reject(ValidationError("query", "query is required"))
    ELSE Send("POST", <<"/", "v1", "/", "context">>,
              Some(model_dump("GetContextInput", input)), None,
              "ContextResponse")

\* remember creating the memory without a confidence
remember_without_confidence(namespace, content) ==
    LET input == BaseModel("CreateMemoryInput",
                           [namespace |-> namespace, content |-> content,
                            type |-> Some("semantic"),
                            source |-> Some("user")])
    IN IF input = None THEN Reject(Propagate("PydanticValidationError"))
       ELSE create_memory(the(input))

\* client.py 282-298
remember(namespace, content) ==
    LET input == BaseModel("CreateMemoryInput",
                           [namespace |-> namespace, content |-> content,
                            type |-> Some("semantic"),
                            source |-> Some("user"),
                            confidence |-> Some("1.0")])
    IN IF input = None THEN Reject(Propagate("PydanticValidationError"))
       ELSE create_memory(the(input))

\* client.py 300-330
recall(query, namespace, token_budget, system_prompt, min_score, include_scores) ==
    LET input == BaseModel("GetContextInput",
                           [query |-> query, namespace |-> namespace,
                            token_budget |-> token_budget,
                            system_prompt |-> system_prompt,
                            min_score |-> min_score,
                            include_scores |-> include_scores])
    IN IF input = None THEN Reject(Propagate("PydanticValidationError"))
       ELSE get_context(the(input))

\* client.py 332-340
forget(id) == delete_memory(id)

(***************************************************************************)
(* client.py 428-591: the operations of AsyncMAIAClient                     *)
(***************************************************************************)
\* client.py 428-431
async_health == Send("GET", <<"/", "health">>, None, None, "HealthResponse")

\* client.py 433-435
async_ready == Send("GET", <<"/", "ready">>, None, None, "")

\* client.py 437-440
async_stats == Send("GET", <<"/", "v1", "/", "stats">>, None, None, "Stats")

\* a create_memory that tests content before namespace
async_create_memory_content_first(input) ==
    IF input.content = <<>>
    THEN Reject(ValidationError("content", "content is required"))
    ELSE IF input.namespace = <<>>
    THEN Reject(ValidationError("namespace", "namespace is required"))
    ELSE Send("POST", <<"/", "v1", "/", "memories">>,
              Some(model_dump("CreateMemoryInput", input)), None, "Memory")

\* client.py 444-456
async_create_memory(input) ==
    IF input.namespace = <<>>
    THEN Reject(ValidationError("namespace", "namespace is required"))
    ELSE IF input.content = <<>>
    THEN Reject(ValidationError("content", "content is required"))
    ELSE Send("POST", <<"/", "v1", "/", "memories">>,
              Some(model_dump("CreateMemoryInput", input)), None, "Memory")

\* get_memory making its request before it tests id
async_get_memory_unchecked(id) ==
    Send("GET", memory_path(IF id = None THEN <<>> ELSE the(id)), None,
         None, "Memory")

\* client.py 458-464
async_get_memory(id) ==
    IF ~truthy_str(id)
    THEN Reject(ValidationError("id", "id is required"))
    ELSE Send("GET", memory_path(the(id)), None, None, "Memory")

\* client.py 466-476
async_update_memory(id, input) ==
    IF ~truthy_str(id)
    THEN Reject(ValidationError("id", "id is required"))
    ELSE Send("PUT", memory_path(the(id)),
              Some(model_dump("UpdateMemoryInput", input)), None, "Memory")

\* client.py 478-483
async_delete_memory(id) ==
    IF ~truthy_str(id)
    THEN Reject(ValidationError("id", "id is required"))
    ELSE Send("DELETE", memory_path(the(id)), None, None, "")

\* client.py 485-497
async_search_memories(input) ==
    LET given == IF input = None THEN SearchMemoriesInput ELSE the(input)
    IN Send("POST", <<"/", "v1", "/", "memories", "/", "search">>,
            Some(model_dump("SearchMemoriesInput", given)), None,
            "ListResponse")

\* client.py 501-511
async_create_namespace(input) ==
    IF input.name = <<>>
    THEN Reject(ValidationError("name", "name is required"))
    ELSE Send("POST", <<"/", "v1", "/", "namespaces">>,
              Some(model_dump("CreateNamespaceInput", input)), None,
              "Namespace")

\* client.py 513-521
async_get_namespace(id_or_name) ==
    IF ~truthy_str(id_or_name)
    THEN Reject(ValidationError("id_or_name", "id or name is required"))
    ELSE Send("GET", namespace_path(the(id_or_name)), None, None,
              "Namespace")

\* update_namespace sent with PATCH
async_update_namespace_patch(id, input) ==
    IF ~truthy_str(id)
    THEN Reject(ValidationError("id", "id is required"))
    ELSE Send("PATCH", namespace_path(the(id)),
              Some(model_dump("UpdateNamespaceInput", input)), None,
              "Namespace")

\* client.py 523-535
async_update_namespace(id, input) ==
    IF ~truthy_str(id)
    THEN Reject(ValidationError("id", "id is required"))
    ELSE Send("PUT", namespace_path(the(id)),
              Some(model_dump("UpdateNamespaceInput", input)), None,
              "Namespace")

\* delete_namespace testing id for None only
async_delete_namespace_unchecked(id) ==
    IF id = None
    THEN Reject(ValidationError("id", "id is required"))
    ELSE Send("DELETE", namespace_path(the(id)), None, None, "")

\* client.py 537-542
async_delete_namespace(id) ==
    IF ~truthy_str(id)
    THEN Reject(ValidationError("id", "id is required"))
    ELSE Send("DELETE", namespace_path(the(id)), None, None, "")

\* client.py 544-556
async_list_namespaces(options) ==
    Send("GET", <<"/", "v1", "/", "namespaces">>, None,
         list_params(options), "ListResponse")

\* client.py 558-577
async_list_namespace_memories(namespace, options) ==
    IF ~truthy_str(namespace)
    THEN Reject(ValidationError("namespace", "namespace is required"))
    ELSE Send("GET", namespace_memories_path(the(namespace)), None,
              list_params(options), "ListResponse")

\* client.py 581-591
async_get_context(input) ==
    IF input.query = <<>>
    THEN Reject(ValidationError("query", "query is required"))
    ELSE Send("POST", <<"/", "v1", "/", "context">>,
              Some(model_dump("GetContextInput", input)), None,
              "ContextResponse")

\* client.py 595-611
async_remember(namespace, content) ==
    LET input == BaseModel("CreateMemoryInput",
                           [namespace |-> namespace, content |-> content,
                            type |-> Some("semantic"),
                            source |-> Some("user"),
                            confidence |-> Some("1.0")])
    IN IF input = None THEN Reject(Propagate("PydanticValidationError"))
       ELSE async_create_memory(the(input))

\* client.py 613-643
async_recall(query, namespace, token_budget, system_prompt, min_score, include_scores) ==
    LET input == BaseModel("GetContextInput",
                           [query |-> query, namespace |-> namespace,
                            token_budget |-> token_budget,
                            system_prompt |-> system_prompt,
                            min_score |-> min_score,
                            include_scores |-> include_scores])
    IN IF input = None THEN Reject(Propagate("PydanticValidationError"))
       ELSE async_get_context(the(input))

\* client.py 645-653
async_forget(id) == async_delete_memory(id)

(***************************************************************************)
(* The state machine: one action per public operation, called on either    *)
(* client with any argument and answered by the transport in any way.      *)
(***************************************************************************)
NoCall ==
    [client |-> "", op |-> "", id |-> None, input |-> None,
     options |-> None, request |-> None, transport |-> NoTransport,
     outcome |-> NoOutcome, awaits |-> 0]

NoQuote == [client |-> "", op |-> "", id |-> <<>>]

\* str.rstrip(ch) on a string given as a sequence of pieces.
RECURSIVE rstrip(_, _)
rstrip(string, ch) ==
    IF Len(string) > 0 /\ string[Len(string)] = ch
    THEN rstrip(SubSeq(string, 1, Len(string) - 1), ch)
    ELSE string

\* The base_url argument each client is constructed with.
BaseUrlArgs ==
    [MAIAClient |-> <<"http://localhost:8080">>,
     AsyncMAIAClient |-> <<"http://localhost:8080", "/">>]

\* __init__: self.base_url = base_url.rstrip("/")
__init__base_url(c) == rstrip(BaseUrlArgs[c], "/")

\* No with statement over the client has been entered.
NoScope == [state |-> "out", target |-> "", exc |-> None, raised |-> None]

Slots == 1..MaxInFlight

\* The two clients after construction, no call made.
ClientsInit ==
    /\ sent = [c \in Clients |-> 0]
    /\ passed = [c \in Clients |-> 0]
    /\ last = NoCall
    /\ closes = [c \in Clients |-> 0]
    /\ base_url = [c \in Clients |-> __init__base_url(c)]
    /\ scope = [c \in Clients |-> NoScope]
    /\ inflight = [s \in Slots |-> NoCall]

NoArgs == [status_code |-> 0, code |-> None]
NoAnswers ==
    [is_not_found |-> FALSE, is_already_exists |-> FALSE,
     is_invalid_input |-> FALSE, is_server_error |-> FALSE, asked |-> FALSE]

Init ==
    /\ ClientsInit
    /\ qin = NoQuote
    /\ qout = <<>>
    /\ ein = NoArgs
    /\ eout = NoAnswers

\* an operation without a result class handing the parsed body back
Returned_with_body(c, plan, tr) ==
    the({[sends |-> r.sends,
          outcome |-> IF r.out.kind = "raise" THEN r.out
                      ELSE IF plan.returns = "" THEN Return(r.data)
                      ELSE model_validate(plan.returns, r.data)] :
         r \in {IF c = "MAIAClient" THEN _request(tr)
                ELSE async_request(tr)}})

\* One call of an operation on client c from its first statement to its
\* return or raise.  plan is what the operation does up to the transport.
\* last is the one call the caller is looking at: the caller takes its
\* outcome (Collect) before the next call is made.
\* How a call that got past validation ends once the transport has answered
\* with tr: the calls of the transport made, and the outcome.
\* (r is bound by a set so that _request is worked out once.)
Returned(c, plan, tr) ==
    the({[sends |-> r.sends,
          outcome |-> IF r.out.kind = "raise" THEN r.out
                      ELSE IF plan.returns = "" THEN Return(None)
                      ELSE model_validate(plan.returns, r.data)] :
         r \in {IF c = "MAIAClient" THEN _request(tr)
                ELSE async_request(tr)}})

Call(c, op, id, input, options, plan) ==
    /\ sent[c] < MaxCalls
    /\ closes[c] = 0
    /\ \E p \in {plan} :
          IF p.raise # None
          THEN /\ last' = [client |-> c, op |-> op, id |-> id,
                           input |-> input, options |-> options,
                           request |-> None, transport |-> NoTransport,
                           outcome |-> the(p.raise), awaits |-> 0]
               /\ UNCHANGED <<sent, passed>>
          ELSE \E tr \in TransportOutcomes :
                 \E r \in {Returned(c, p, tr)} :
                    /\ last' = [client |-> c, op |-> op, id |-> id,
                                input |-> input, options |-> options,
                                request |-> Some([method |-> p.method,
                                                  path |-> p.path,
                                                  json |-> p.json,
                                                  params |-> p.params]),
                                transport |-> tr, outcome |-> r.outcome,
                                awaits |-> IF c = "MAIAClient" THEN 0
                                           ELSE r.sends]
                    /\ sent' = [sent EXCEPT ![c] = @ + r.sends]
                    /\ passed' = [passed EXCEPT ![c] = @ + 1]
    /\ UNCHANGED <<pathVars, errVars, lifeVars, inflight>>

Sync(c) == c = "MAIAClient"

\* No call is under way: the caller has taken the outcome of its last call.
Idle == last = NoCall

Health ==
    /\ Idle
    /\ \E c \in Clients :
           Call(c, "health", None, None, None,
                IF Sync(c) THEN health ELSE async_health)

Ready ==
    /\ Idle
    /\ \E c \in Clients :
           Call(c, "ready", None, None, None,
                IF Sync(c) THEN ready ELSE async_ready)

GetStats ==
    /\ Idle
    /\ \E c \in Clients :
           Call(c, "stats", None, None, None,
                IF Sync(c) THEN stats ELSE async_stats)

CreateMemory ==
    /\ Idle
    /\ \E c \in Clients, input \in CreateMemoryInputs :
           Call(c, "create_memory", None, Some(input), None,
                IF Sync(c) THEN create_memory(input)
                ELSE async_create_memory(input))

GetMemory ==
    /\ Idle
    /\ \E c \in Clients, id \in IdArgs :
           Call(c, "get_memory", id, None, None,
                IF Sync(c) THEN get_memory(id) ELSE async_get_memory(id))

UpdateMemory ==
    /\ Idle
    /\ \E c \in Clients, id \in IdArgs, input \in UpdateMemoryInputs :
           Call(c, "update_memory", id, Some(input), None,
                IF Sync(c) THEN update_memory(id, input)
                ELSE async_update_memory(id, input))

DeleteMemory ==
    /\ Idle
    /\ \E c \in Clients, id \in IdArgs :
           Call(c, "delete_memory", id, None, None,
                IF Sync(c) THEN delete_memory(id) ELSE async_delete_memory(id))

SearchMemories ==
    /\ Idle
    /\ \E c \in Clients,
          input \in {None} \cup {Some(i) : i \in SearchMemoriesInputs} :
           Call(c, "search_memories", None, input, None,
                IF Sync(c) THEN search_memories(input)
                ELSE async_search_memories(input))

CreateNamespace ==
    /\ Idle
    /\ \E c \in Clients, input \in CreateNamespaceInputs :
           Call(c, "create_namespace", None, Some(input), None,
                IF Sync(c) THEN create_namespace(input)
                ELSE async_create_namespace(input))

GetNamespace ==
    /\ Idle
    /\ \E c \in Clients, id_or_name \in IdArgs :
           Call(c, "get_namespace", id_or_name, None, None,
                IF Sync(c) THEN get_namespace(id_or_name)
                ELSE async_get_namespace(id_or_name))

UpdateNamespace ==
    /\ Idle
    /\ \E c \in Clients, id \in IdArgs, input \in UpdateNamespaceInputs :
           Call(c, "update_namespace", id, Some(input), None,
                IF Sync(c) THEN update_namespace(id, input)
                ELSE async_update_namespace(id, input))

DeleteNamespace ==
    /\ Idle
    /\ \E c \in Clients, id \in IdArgs :
           Call(c, "delete_namespace", id, None, None,
                IF Sync(c) THEN delete_namespace(id)
                ELSE async_delete_namespace(id))

ListNamespaces ==
    /\ Idle
    /\ \E c \in Clients,
          options \in {None} \cup {Some(o) : o \in ListOptionsSet} :
           Call(c, "list_namespaces", None, None, options,
                IF Sync(c) THEN list_namespaces(options)
                ELSE async_list_namespaces(options))

ListNamespaceMemories ==
    /\ Idle
    /\ \E c \in Clients, namespace \in IdArgs,
          options \in {None} \cup {Some(o) : o \in ListOptionsSet} :
           Call(c, "list_namespace_memories", namespace, None, options,
                IF Sync(c) THEN list_namespace_memories(namespace, options)
                ELSE async_list_namespace_memories(namespace, options))

GetContext ==
    /\ Idle
    /\ \E c \in Clients, input \in GetContextInputs :
           Call(c, "get_context", None, Some(input), None,
                IF Sync(c) THEN get_context(input)
                ELSE async_get_context(input))

\* An argument of a convenience method declared str: a str, or None.
TextArgs == {None} \cup {Some(t) : t \in Texts}

RememberArgs == [namespace : TextArgs, content : TextArgs]

RecallArgs ==
    [query : TextArgs, namespace : {None, Some(<<"a">>)},
     token_budget : {None, Some(2000)}, system_prompt : {None},
     min_score : {None}, include_scores : {None, Some(TRUE)}]

Remember ==
    /\ Idle
    /\ \E c \in Clients, a \in RememberArgs :
           Call(c, "remember", None, Some(a), None,
                IF Sync(c) THEN remember(a.namespace, a.content)
                ELSE async_remember(a.namespace, a.content))

Recall ==
    /\ Idle
    /\ \E c \in Clients, a \in RecallArgs :
           Call(c, "recall", None, Some(a), None,
                IF Sync(c)
                THEN recall(a.query, a.namespace, a.token_budget,
                            a.system_prompt, a.min_score, a.include_scores)
                ELSE async_recall(a.query, a.namespace, a.token_budget,
                                  a.system_prompt, a.min_score,
                                  a.include_scores))

Forget ==
    /\ Idle
    /\ \E c \in Clients, id \in IdArgs :
           Call(c, "forget", id, None, None,
                IF Sync(c) THEN forget(id) ELSE async_forget(id))

\* The caller takes the outcome of the call it made.
Collect ==
    /\ last # NoCall
    /\ last' = NoCall
    /\ UNCHANGED <<sent, passed, pathVars, errVars, lifeVars, inflight>>

(***************************************************************************)
(* client.py 70-78 and 379-387: the life cycle of a client                 *)
(***************************************************************************)
\* close closing the connections of every client
close_all(c) == [k \in Clients |-> closes[k] + 1]

\* client.py 76-78: self._client.close(); closes after the call
close(c) == [closes EXCEPT ![c] = @ + 1]

\* client.py 385-387: await self._client.aclose(); closes after the call
async_close(c) == [closes EXCEPT ![c] = @ + 1]

\* client.py 70-71: return self
__enter__(c) == c

\* client.py 379-380: return self
__aenter__(c) == c

\* __exit__ returning True, which makes the with statement swallow exc
__exit__swallowing(c, exc) == [closes |-> close(c), returns |-> TRUE]

\* client.py 73-74: self.close(), and None is returned; exc is the exception
\* the body of the with statement raised, if any
__exit__(c, exc) == [closes |-> close(c), returns |-> FALSE]

\* client.py 382-383: await self.close(), and None is returned
__aexit__(c, exc) == [closes |-> async_close(c), returns |-> FALSE]

\* client.close() / await client.close() called by the user, between two
\* calls.
Close ==
    \E c \in Clients :
        /\ Idle
        /\ closes[c] < MaxCloses
        /\ closes' = IF Sync(c) THEN close(c) ELSE async_close(c)
        /\ UNCHANGED <<callVars, pathVars, errVars, base_url, scope,
                       inflight>>

\* The exception raised by the call under way on client c, if any.
Raising(c) ==
    IF last.client = c /\ last.outcome.kind = "raise"
    THEN Some(last.outcome.exc) ELSE None

\* with client as target: / async with client as target: is entered.
Enter ==
    \E c \in Clients :
        /\ scope[c].state = "out"
        /\ closes[c] = 0
        /\ scope' = [scope EXCEPT ![c] =
                        [state |-> "in",
                         target |-> IF Sync(c) THEN __enter__(c)
                                    ELSE __aenter__(c),
                         exc |-> None, raised |-> None]]
        /\ UNCHANGED <<callVars, pathVars, errVars, closes, base_url,
                       inflight>>

\* The with statement is left: its body has ended, or the call under way in
\* it raised.  __exit__ gets the exception, and the with statement raises
\* it again unless __exit__ returned a true value.
Exit ==
    \E c \in Clients :
        /\ scope[c].state = "in"
        /\ LET exc == Raising(c)
               r == IF Sync(c) THEN __exit__(c, exc) ELSE __aexit__(c, exc)
           IN /\ closes' = r.closes
              /\ scope' = [scope EXCEPT ![c] =
                              [state |-> "left", target |-> scope[c].target,
                               exc |-> exc,
                               raised |-> IF r.returns THEN None ELSE exc]]
        /\ UNCHANGED <<callVars, pathVars, errVars, base_url, inflight>>

Next ==
    \/ Collect
    \/ Health
    \/ Ready
    \/ GetStats
    \/ CreateMemory
    \/ GetMemory
    \/ UpdateMemory
    \/ DeleteMemory
    \/ SearchMemories
    \/ CreateNamespace
    \/ GetNamespace
    \/ UpdateNamespace
    \/ DeleteNamespace
    \/ ListNamespaces
    \/ ListNamespaceMemories
    \/ GetContext
    \/ Remember
    \/ Recall
    \/ Forget

Spec == Init /\ [][Next]_vars

(***************************************************************************)
(* Path building on its own: the path an operation with an identifier      *)
(* argument builds, for identifiers over the whole alphabet.               *)
(***************************************************************************)
PathOps ==
    {"get_memory", "update_memory", "delete_memory", "get_namespace",
     "update_namespace", "delete_namespace", "list_namespace_memories"}

QuoteIds == StringsUpTo(Alphabet, MaxQuoteLen) \ {<<>>}

AnyUpdateMemoryInput == CHOOSE i \in UpdateMemoryInputs : TRUE
AnyUpdateNamespaceInput == CHOOSE i \in UpdateNamespaceInputs : TRUE

\* The operation op of client c called with the identifier id.
PlanOf(c, op, id) ==
    CASE op = "get_memory" ->
            IF Sync(c) THEN get_memory(id) ELSE async_get_memory(id)
      [] op = "update_memory" ->
            IF Sync(c) THEN update_memory(id, AnyUpdateMemoryInput)
            ELSE async_update_memory(id, AnyUpdateMemoryInput)
      [] op = "delete_memory" ->
            IF Sync(c) THEN delete_memory(id) ELSE async_delete_memory(id)
      [] op = "get_namespace" ->
            IF Sync(c) THEN get_namespace(id) ELSE async_get_namespace(id)
      [] op = "update_namespace" ->
            IF Sync(c) THEN update_namespace(id, AnyUpdateNamespaceInput)
            ELSE async_update_namespace(id, AnyUpdateNamespaceInput)
      [] op = "delete_namespace" ->
            IF Sync(c) THEN delete_namespace(id)
            ELSE async_delete_namespace(id)
      [] op = "list_namespace_memories" ->
            IF Sync(c) THEN list_namespace_memories(id, None)
            ELSE async_list_namespace_memories(id, None)

QuoteInit ==
    /\ ClientsInit
    /\ qin \in [client : Clients, op : PathOps, id : QuoteIds]
    /\ qout = <<>>
    /\ ein = NoArgs
    /\ eout = NoAnswers

BuildPath ==
    /\ qin.op \in PathOps
    /\ qout = <<>>
    /\ qout' = PlanOf(qin.client, qin.op, Some(qin.id)).path
    /\ UNCHANGED <<callVars, qin, errVars, lifeVars, inflight>>

QuoteNext == BuildPath

SpecQuote == QuoteInit /\ [][QuoteNext]_vars

(***************************************************************************)
(* An APIError on its own: the helper methods of an APIError built from    *)
(* any status code and any code.                                           *)
(***************************************************************************)
StatusCodes == {0, 200, 399, 400, 401, 404, 409, 499, 500, 503, 599}

ErrorCodes ==
    {None, Some(""), Some("NOT_FOUND"), Some("ALREADY_EXISTS"),
     Some("INVALID_INPUT"), Some("INTERNAL")}

ErrorsInit ==
    /\ ClientsInit
    /\ qin = NoQuote
    /\ qout = <<>>
    /\ ein \in [status_code : StatusCodes, code : ErrorCodes]
    /\ eout = NoAnswers

\* APIError(status_code, "failed", code) is built and its helpers called.
Classify ==
    /\ ~eout.asked
    /\ LET e == APIError(ein.status_code, "failed", ein.code, None)
       IN eout' = [is_not_found |-> is_not_found(e),
                   is_already_exists |-> is_already_exists(e),
                   is_invalid_input |-> is_invalid_input(e),
                   is_server_error |-> is_server_error(e),
                   asked |-> TRUE]
    /\ UNCHANGED <<callVars, pathVars, ein, lifeVars, inflight>>

ErrorsNext == Classify

SpecErrors == ErrorsInit /\ [][ErrorsNext]_vars

(***************************************************************************)
(* The error classes built by a caller: ein holds the class and the         *)
(* arguments of the constructor, eout the object built and its str().      *)
(***************************************************************************)
Resources == {"memory", "namespace", "", "a b"}
ResourceIds == {"123", "test", "", "a/b", "not found: x"}
Messages == {"not found", "internal error", ""}

ErrorArgs ==
    [cls : {"NotFoundError", "AlreadyExistsError"}, resource : Resources,
     id : ResourceIds, status_code : {0}, message : {""}, code : {None}]
    \cup [cls : {"APIError"}, resource : {""}, id : {""},
          status_code : {404, 409, 500}, message : Messages,
          code : ErrorCodes]

NoError == [built |-> FALSE, error |-> NoOutcome, shown |-> FALSE, str |-> ""]

RaisedInit ==
    /\ ClientsInit
    /\ qin = NoQuote
    /\ qout = <<>>
    /\ ein \in ErrorArgs
    /\ eout = NoError

\* The constructor of the class ein names is called with ein's arguments.
Construct ==
    /\ ~eout.built
    /\ eout' = [eout EXCEPT
                  !.built = TRUE,
                  !.error =
                     CASE ein.cls = "NotFoundError" ->
                             NotFoundError(ein.resource, ein.id)
                       [] ein.cls = "AlreadyExistsError" ->
                             AlreadyExistsError(ein.resource, ein.id)
                       [] OTHER ->
                             APIError(ein.status_code, ein.message, ein.code,
                                      None)]
    /\ UNCHANGED <<callVars, pathVars, ein, lifeVars, inflight>>

\* str(error) is taken of the object built.
Show ==
    /\ eout.built
    /\ ~eout.shown
    /\ eout' = [eout EXCEPT !.shown = TRUE, !.str = __str__(eout.error)]
    /\ UNCHANGED <<callVars, pathVars, ein, lifeVars, inflight>>

RaisedNext == Construct \/ Show

SpecRaised == RaisedInit /\ [][RaisedNext]_vars

(***************************************************************************)
(* A client used as a context manager, the body of the with statement      *)
(* making calls.                                                           *)
(***************************************************************************)
ScopeNext ==
    \/ Enter
    \/ Exit
    \/ Collect
    \/ Ready
    \/ GetMemory

SpecScope == Init /\ [][ScopeNext]_vars

(***************************************************************************)
(* Clients that are closed between calls: every operation, and close.      *)
(***************************************************************************)
LifeNext ==
    \/ Next
    \/ Close

SpecLife == Init /\ [][LifeNext]_vars

(***************************************************************************)
(* The operation called, by name                                           *)
(***************************************************************************)
\* What MAIAClient does up to the transport when called as call l was.
sync_plan(l) ==
    CASE l.op = "health" ->
            health
      [] l.op = "ready" ->
            ready
      [] l.op = "stats" ->
            stats
      [] l.op = "create_memory" ->
            create_memory(the(l.input))
      [] l.op = "get_memory" ->
            get_memory(l.id)
      [] l.op = "update_memory" ->
            update_memory(l.id, the(l.input))
      [] l.op = "delete_memory" ->
            delete_memory(l.id)
      [] l.op = "search_memories" ->
            search_memories(l.input)
      [] l.op = "create_namespace" ->
            create_namespace(the(l.input))
      [] l.op = "get_namespace" ->
            get_namespace(l.id)
      [] l.op = "update_namespace" ->
            update_namespace(l.id, the(l.input))
      [] l.op = "delete_namespace" ->
            delete_namespace(l.id)
      [] l.op = "list_namespaces" ->
            list_namespaces(l.options)
      [] l.op = "list_namespace_memories" ->
            list_namespace_memories(l.id, l.options)
      [] l.op = "get_context" ->
            get_context(the(l.input))
      [] l.op = "remember" ->
            remember(the(l.input).namespace, the(l.input).content)
      [] l.op = "recall" ->
            recall(the(l.input).query, the(l.input).namespace,
                 the(l.input).token_budget, the(l.input).system_prompt,
                 the(l.input).min_score, the(l.input).include_scores)
      [] l.op = "forget" ->
            forget(l.id)

\* What AsyncMAIAClient does up to the transport when called as call l was.
async_plan(l) ==
    CASE l.op = "health" ->
            async_health
      [] l.op = "ready" ->
            async_ready
      [] l.op = "stats" ->
            async_stats
      [] l.op = "create_memory" ->
            async_create_memory(the(l.input))
      [] l.op = "get_memory" ->
            async_get_memory(l.id)
      [] l.op = "update_memory" ->
            async_update_memory(l.id, the(l.input))
      [] l.op = "delete_memory" ->
            async_delete_memory(l.id)
      [] l.op = "search_memories" ->
            async_search_memories(l.input)
      [] l.op = "create_namespace" ->
            async_create_namespace(the(l.input))
      [] l.op = "get_namespace" ->
            async_get_namespace(l.id)
      [] l.op = "update_namespace" ->
            async_update_namespace(l.id, the(l.input))
      [] l.op = "delete_namespace" ->
            async_delete_namespace(l.id)
      [] l.op = "list_namespaces" ->
            async_list_namespaces(l.options)
      [] l.op = "list_namespace_memories" ->
            async_list_namespace_memories(l.id, l.options)
      [] l.op = "get_context" ->
            async_get_context(the(l.input))
      [] l.op = "remember" ->
            async_remember(the(l.input).namespace, the(l.input).content)
      [] l.op = "recall" ->
            async_recall(the(l.input).query, the(l.input).namespace,
                 the(l.input).token_budget, the(l.input).system_prompt,
                 the(l.input).min_score, the(l.input).include_scores)
      [] l.op = "forget" ->
            async_forget(l.id)

(***************************************************************************)
(* Concurrent calls on one AsyncMAIAClient: a call runs from its first     *)
(* statement to await self._client.request(...), where its coroutine is    *)
(* suspended, and from there to its return or raise once the transport has *)
(* answered.  Calls in flight are answered in any order.                   *)
(***************************************************************************)
\* What the transport answers to a request in flight.
ConcurrentOutcomes ==
    {tr \in TransportOutcomes :
        \/ tr.kind = "error"
        \/ /\ tr.status_code \in {200, 201, 404, 500}
           /\ tr.text \in {"", "{}", "<memory>",
                           "{\"error\":\"memory not found\",\"code\":\"NOT_FOUND\"}"}}

\* The call op(...) of the asynchronous client, from its first statement to
\* its first suspension or, when it raises before, to its end.
AsyncBegin(s, op, id, input, options) ==
    LET c == "AsyncMAIAClient"
        l == [NoCall EXCEPT !.client = c, !.op = op, !.id = id,
                            !.input = input, !.options = options]
        plan == async_plan(l)
    IN /\ inflight[s] = NoCall
       /\ sent[c] < MaxCalls
       /\ closes[c] = 0
       /\ IF plan.raise # None
          THEN \* raised before any await is reached
               /\ last' = [l EXCEPT !.outcome = the(plan.raise)]
               /\ UNCHANGED <<sent, passed, inflight>>
          ELSE \* 398: response = await self._client.request(...)
               /\ inflight' =
                     [inflight EXCEPT ![s] =
                         [l EXCEPT !.request =
                                      Some([method |-> plan.method,
                                            path |-> plan.path,
                                            json |-> plan.json,
                                            params |-> plan.params]),
                                   !.awaits = 1]]
               /\ sent' = [sent EXCEPT ![c] = @ + 1]
               /\ passed' = [passed EXCEPT ![c] = @ + 1]
               /\ last' = last
       /\ UNCHANGED <<pathVars, errVars, lifeVars>>

\* The slots no call is suspended in.
FreeSlots == {s \in Slots : inflight[s] = NoCall}

BeginReady ==
    /\ FreeSlots # {}
    /\ \E s \in FreeSlots : AsyncBegin(s, "ready", None, None, None)

BeginGetMemory ==
    /\ FreeSlots # {}
    /\ \E s \in FreeSlots, id \in {None, Some(<<>>), Some(<<"a">>)} :
           AsyncBegin(s, "get_memory", id, None, None)

BeginRemember ==
    /\ FreeSlots # {}
    /\ \E s \in FreeSlots, a \in RememberArgs :
           AsyncBegin(s, "remember", None, Some(a), None)

\* the transport answering the calls in the order they were made
AsyncResume_in_order(s) ==
    /\ inflight[s] # NoCall
    /\ \A t \in Slots : t < s => inflight[t] = NoCall
    /\ \E tr \in ConcurrentOutcomes :
           /\ last' = [inflight[s] EXCEPT
                          !.transport = tr,
                          !.outcome = Returned("AsyncMAIAClient",
                                               async_plan(inflight[s]),
                                               tr).outcome]
           /\ inflight' = [inflight EXCEPT ![s] = NoCall]
    /\ UNCHANGED <<sent, passed, pathVars, errVars, lifeVars>>

\* client.py 398-424 and the rest of the operation: the transport answers
\* the request of the call in slot s, whose coroutine runs on to its end.
AsyncResume(s) ==
    /\ inflight[s] # NoCall
    /\ \E tr \in ConcurrentOutcomes :
           /\ last' = [inflight[s] EXCEPT
                          !.transport = tr,
                          !.outcome = Returned("AsyncMAIAClient",
                                               async_plan(inflight[s]),
                                               tr).outcome]
           /\ inflight' = [inflight EXCEPT ![s] = NoCall]
    /\ UNCHANGED <<sent, passed, pathVars, errVars, lifeVars>>

Resume ==
    /\ FreeSlots # Slots
    /\ \E s \in Slots \ FreeSlots : AsyncResume(s)

AsyncNext ==
    \/ BeginReady
    \/ BeginGetMemory
    \/ BeginRemember
    \/ Resume

SpecAsync == Init /\ [][AsyncNext]_vars

(***************************************************************************)
(* The operations called with inputs a server would refuse: qin holds the  *)
(* call, qout what the operation does up to the transport.                 *)
(***************************************************************************)
\* identifiers and texts: empty, whitespace only, with a slash
OddIds == {<<>>, <<" ">>, <<"/">>, <<" ", "/">>, <<"a">>}
OddTexts == {<<>>, <<" ">>, <<"a", "/">>}

\* types.py 68-77: confidence outside [0, 1]
OddCreateMemoryInputs ==
    [namespace : OddTexts, content : {<<>>, <<" ">>, <<"a">>},
     type : {None}, metadata : {None}, tags : {None},
     confidence : {None, Some("-0.5"), Some("1.5")}, source : {None}]

\* types.py 80-86: no field set, an empty content, a confidence above 1
OddUpdateMemoryInputs ==
    [content : {None, Some(<<>>)}, metadata : {None}, tags : {None},
     confidence : {None, Some("1.5")}]

\* types.py 45-53: limits that are zero or negative
OddNamespaceConfigs ==
    [token_budget : {None, Some(0), Some(-1)}, max_memories : {None, Some(0)},
     retention_days : {None, Some(-1)}, allowed_types : {None},
     inherit_from_parent : {FALSE}, custom_scoring : {None}]

\* types.py 107-113: a parent no namespace has
OddCreateNamespaceInputs ==
    [name : OddTexts, parent : {None, Some(<<"missing">>)},
     template : {None},
     config : {None} \cup {Some(cfg) : cfg \in OddNamespaceConfigs}]

\* types.py 116-119
OddUpdateNamespaceInputs == [config : OddNamespaceConfigs]

\* types.py 141-149
OddGetContextInputs ==
    [query : OddTexts, namespace : {None, Some(<<" ">>)},
     token_budget : {None, Some(0), Some(-1)}, system_prompt : {None},
     include_scores : {None}, min_score : {None, Some("-1.0")}]

OddCalls ==
    [client : Clients,
     op : {"get_memory", "delete_memory", "get_namespace",
           "delete_namespace", "list_namespace_memories"},
     id : {Some(id) : id \in OddIds}, input : {None}, options : {None}]
    \cup [client : Clients, op : {"update_memory"},
          id : {Some(id) : id \in OddIds},
          input : {Some(i) : i \in OddUpdateMemoryInputs}, options : {None}]
    \cup [client : Clients, op : {"update_namespace"},
          id : {Some(id) : id \in OddIds},
          input : {Some(i) : i \in OddUpdateNamespaceInputs},
          options : {None}]
    \cup [client : Clients, op : {"create_memory"}, id : {None},
          input : {Some(i) : i \in OddCreateMemoryInputs}, options : {None}]
    \cup [client : Clients, op : {"create_namespace"}, id : {None},
          input : {Some(i) : i \in OddCreateNamespaceInputs},
          options : {None}]
    \cup [client : Clients, op : {"get_context"}, id : {None},
          input : {Some(i) : i \in OddGetContextInputs}, options : {None}]

FormatInit ==
    /\ ClientsInit
    /\ qin \in OddCalls
    /\ qout = <<>>
    /\ ein = NoArgs
    /\ eout = NoAnswers

\* The operation runs up to its call of _request.
Validate ==
    /\ qout = <<>>
    /\ qout' = <<IF Sync(qin.client) THEN sync_plan(qin) ELSE async_plan(qin)>>
    /\ UNCHANGED <<callVars, qin, errVars, lifeVars, inflight>>

FormatNext == Validate

SpecFormat == FormatInit /\ [][FormatNext]_vars

(***************************************************************************)
(* Properties                                                              *)
(***************************************************************************)
\* The call that a step makes, if the step is a call.
IsCall == last = NoCall /\ last' # NoCall

\* The operations with an identifier argument and the name of that argument.
IdField ==
    [get_memory |-> "id", update_memory |-> "id", delete_memory |-> "id",
     get_namespace |-> "id_or_name", update_namespace |-> "id",
     delete_namespace |-> "id", list_namespace_memories |-> "namespace"]

\* The required str fields of the input object of an operation.
InputFields ==
    [create_memory |-> {"namespace", "content"},
     create_namespace |-> {"name"},
     get_context |-> {"query"}]

\* The required fields of call l that are empty (or None).
EmptyRequired(l) ==
    IF l.op \in DOMAIN IdField
    THEN IF l.id = None \/ the(l.id) = <<>> THEN {IdField[l.op]} ELSE {}
    ELSE IF l.op \in DOMAIN InputFields
    THEN {f \in InputFields[l.op] : the(l.input)[f] = <<>>}
    ELSE {}

\* The required arguments of a convenience method that call l was given
\* empty or None.
EmptyArguments(l) ==
    CASE l.op = "remember" ->
            {f \in {"namespace", "content"} :
                the(l.input)[f] = None \/ the(the(l.input)[f]) = <<>>}
      [] l.op = "recall" ->
            {f \in {"query"} :
                the(l.input)[f] = None \/ the(the(l.input)[f]) = <<>>}
      [] l.op = "forget" ->
            IF l.id = None \/ the(l.id) = <<>> THEN {"id"} ELSE {}
      [] OTHER -> {}

\* C1: an operation of either client called with a required field empty (or
\* None for an identifier argument) raises ValidationError whose field names
\* that field (the empty one; one of them when several are empty), and no
\* HTTP request is issued: none is handed to the transport and the count of
\* requests sent does not move.
C1_ValidationBeforeSend ==
    [][(IsCall /\ EmptyRequired(last') # {}) =>
          /\ last'.outcome.kind = "raise"
          /\ last'.outcome.exc = "ValidationError"
          /\ last'.outcome.field \in EmptyRequired(last')
          /\ last'.request = None
          /\ sent' = sent]_vars

C1_Witness ==
    /\ last.client = "AsyncMAIAClient"
    /\ last.op = "create_memory"
    /\ the(last.input).namespace # <<>>
    /\ the(last.input).content = <<>>
    /\ last.outcome.exc = "ValidationError"
    /\ last.outcome.field = "content"
    /\ sent["AsyncMAIAClient"] = 1

\* C2: whenever validation passed and the server answers with a status of
\* 400 or more, the operation fails with APIError carrying that status,
\* whatever the body is.
C2_ErrorStatusIsAPIError ==
    (last.transport.kind = "response" /\ last.transport.status_code >= 400) =>
        /\ last.outcome.kind = "raise"
        /\ last.outcome.exc = "APIError"
        /\ last.outcome.status_code = last.transport.status_code

\* C3: every call of every operation either returns its typed result or
\* raises an instance of MAIAError.
C3_OnlyMAIAErrors ==
    last # NoCall =>
        \/ last.outcome.kind = "return"
        \/ /\ last.outcome.kind = "raise"
           /\ isinstance(last.outcome.exc, "MAIAError")

\* C4: when the transport fails before a response is received, the
\* operation fails with NetworkError whose cause is that failure, never with
\* APIError, and the request was handed to the transport once.
C4_TransportFailureIsNetworkError ==
    [][(IsCall /\ last'.transport.kind = "error") =>
          /\ last'.outcome.kind = "raise"
          /\ last'.outcome.exc = "NetworkError"
          /\ ~isinstance(last'.outcome.exc, "APIError")
          /\ last'.outcome.cause = last'.transport.cause
          /\ sent'[last'.client] = sent[last'.client] + 1]_vars

C4_Witness ==
    /\ last.op = "get_context"
    /\ last.transport.kind = "error"
    /\ last.transport.cause = "ReadTimeout"
    /\ last.outcome.exc = "NetworkError"
    /\ last.outcome.cause = "ReadTimeout"

\* C5: at any time the number of requests a client has issued is the number
\* of its calls that passed validation: a call that passes validation issues
\* exactly one request, however many came before it and however it ends, a
\* call that fails validation (the client's own, or pydantic's when a
\* convenience method builds its input object) issues none, and a call
\* returns only on a response below 400 to its own request.
C5_OneRequestPerCall ==
    [][/\ \A c \in Clients : sent'[c] = passed'[c]
       /\ IsCall =>
            LET c == last'.client
            IN IF \/ last'.outcome.exc = "ValidationError"
                  \/ /\ last'.op \in {"remember", "recall"}
                     /\ EmptyArguments(last') # {}
               THEN /\ sent' = sent
                    /\ last'.request = None
                    /\ last'.outcome.kind = "raise"
               ELSE /\ sent' = [sent EXCEPT ![c] = @ + 1]
                    /\ last'.request # None
                    /\ last'.outcome.kind = "return" =>
                          /\ last'.transport.kind = "response"
                          /\ last'.transport.status_code < 400]_vars

\* A second delete_memory of a client, answered 404 by the server.
C5_Witness ==
    /\ last.op = "delete_memory"
    /\ sent[last.client] = 2
    /\ passed[last.client] = 2
    /\ last.transport.status_code = 404
    /\ last.outcome.exc = "APIError"

\* C6: ready() returns nothing on every response with a status below 400,
\* whatever the body; it raises APIError on a status of 400 or more and
\* NetworkError on a transport failure, and nothing else.
C6_ReadyDiscardsBody ==
    last.op = "ready" =>
        /\ (last.transport.kind = "response"
              /\ last.transport.status_code < 400)
             => last.outcome = Return(None)
        /\ (last.transport.kind = "response"
              /\ last.transport.status_code >= 400)
             => last.outcome.exc = "APIError"
        /\ last.transport.kind = "error"
             => last.outcome.exc = "NetworkError"

HttpText ==
    [s \in Statuses |->
        CASE s = 200 -> "HTTP 200" [] s = 201 -> "HTTP 201"
          [] s = 400 -> "HTTP 400" [] s = 404 -> "HTTP 404"
          [] s = 500 -> "HTTP 500" [] OTHER -> "HTTP"]

\* C7: the APIError of a response with a status of 400 or more takes message,
\* code and details from the members error, code and details of a JSON
\* object body (code and details None when missing, message "HTTP {status}"
\* when error is missing); its message is the raw text of a body that is not
\* JSON, and "HTTP {status}" when the body is empty.
C7_APIErrorFields ==
    (last.transport.kind = "response" /\ last.transport.status_code >= 400) =>
        LET text == last.transport.text
            http == HttpText[last.transport.status_code]
            o == last.outcome
        IN /\ text = "{\"error\":\"memory not found\",\"code\":\"NOT_FOUND\"}"
                => /\ o.exc = "APIError"
                   /\ o.message = "memory not found"
                   /\ o.code = Some("NOT_FOUND")
                   /\ o.details = None
           /\ text = "{\"error\":\"boom\",\"code\":\"INTERNAL\",\"details\":\"stack\"}"
                => /\ o.exc = "APIError"
                   /\ o.message = "boom"
                   /\ o.code = Some("INTERNAL")
                   /\ o.details = Some("stack")
           /\ text = "{\"code\":\"ALREADY_EXISTS\"}"
                => /\ o.exc = "APIError"
                   /\ o.message = http
                   /\ o.code = Some("ALREADY_EXISTS")
                   /\ o.details = None
           /\ text = "{}"
                => /\ o.exc = "APIError"
                   /\ o.message = http
                   /\ o.code = None
                   /\ o.details = None
           /\ text = "OK"
                => /\ o.exc = "APIError"
                   /\ o.message = "OK"
                   /\ o.code = None
                   /\ o.details = None
           /\ text = ""
                => /\ o.exc = "APIError"
                   /\ o.message = http
                   /\ o.code = None
                   /\ o.details = None

C7_Witness ==
    /\ last.op = "update_namespace"
    /\ last.transport.status_code = 500
    /\ last.transport.text = "OK"
    /\ last.outcome.exc = "APIError"
    /\ last.outcome.message = "OK"

\* C8: the request of list_namespaces and list_namespace_memories carries
\* the query parameter limit (resp. offset) exactly when options were given
\* and that option is present and not zero, with the value given; without
\* options, or with nothing to send, no query parameters are passed at all.
C8_ListQueryParameters ==
    (last.op \in {"list_namespaces", "list_namespace_memories"}
        /\ last.request # None) =>
        LET params == the(last.request).params
            sent_keys == IF params = None THEN {} ELSE DOMAIN the(params)
            given(k) == /\ last.options # None
                        /\ the(last.options)[k] # None
                        /\ the(the(last.options)[k]) # 0
        IN /\ sent_keys \subseteq {"limit", "offset"}
           /\ \A k \in {"limit", "offset"} :
                /\ k \in sent_keys <=> given(k)
                /\ k \in sent_keys =>
                      the(params)[k] = the(the(last.options)[k])
           /\ last.options = None => params = None
           /\ last.options = Some([limit |-> Some(10), offset |-> None]) =>
                params = Some([limit |-> 10])

\* list_namespaces with limit=10 and an explicit offset=0.
C8_Witness ==
    /\ last.op = "list_namespaces"
    /\ last.options = Some([limit |-> Some(10), offset |-> Some(0)])
    /\ last.request # None
    /\ the(last.request).params = Some([limit |-> 10])

HexDigits ==
    {"0", "1", "2", "3", "4", "5", "6", "7", "8", "9",
     "A", "B", "C", "D", "E", "F"}

\* The character a %XX escape stands for.
unhex(a, b) ==
    CASE <<a, b>> = <<"2", "F">> -> "/"
      [] <<a, b>> = <<"3", "F">> -> "?"
      [] <<a, b>> = <<"2", "3">> -> "#"
      [] <<a, b>> = <<"2", "5">> -> "%"
      [] <<a, b>> = <<"2", "0">> -> " "
      [] <<a, b>> = <<"6", "1">> -> "a"
      [] <<a, b>> = <<"3", "2">> -> "2"
      [] <<a, b>> = <<"4", "6">> -> "F"
      [] <<a, b>> = <<"7", "E">> -> "~"
      [] OTHER -> "?"

\* Percent-decoding of one path segment.
RECURSIVE unquote(_)
unquote(seg) ==
    IF seg = <<>> THEN <<>>
    ELSE IF Head(seg) = "%" /\ Len(seg) >= 3
    THEN <<unhex(seg[2], seg[3])>> \o unquote(SubSeq(seg, 4, Len(seg)))
    ELSE <<Head(seg)>> \o unquote(Tail(seg))

\* The segments of a path: what stands after each "/".
RECURSIVE Segments(_)
Segments(path) ==
    IF path = <<>> THEN <<>>
    ELSE LET rest == Tail(path)
             n == IF \E i \in 1..Len(rest) : rest[i] = "/"
                  THEN (CHOOSE i \in 1..Len(rest) :
                            /\ rest[i] = "/"
                            /\ \A j \in 1..(i - 1) : rest[j] # "/") - 1
                  ELSE Len(rest)
         IN <<SubSeq(rest, 1, n)>> \o Segments(SubSeq(rest, n + 1, Len(rest)))

\* A segment in which no reserved character stands for itself: "%" only
\* opens an escape of two hexadecimal digits.
Encoded(seg) ==
    \A i \in 1..Len(seg) :
        /\ seg[i] \notin {"/", "?", "#", " "}
        /\ seg[i] = "%" =>
              /\ i + 2 <= Len(seg)
              /\ seg[i + 1] \in HexDigits
              /\ seg[i + 2] \in HexDigits

\* The endpoint templates of the interface table; "{}" is the identifier.
Endpoint ==
    [health |-> [method |-> "GET", path |-> <<"health">>, body |-> FALSE],
     ready |-> [method |-> "GET", path |-> <<"ready">>, body |-> FALSE],
     stats |-> [method |-> "GET", path |-> <<"v1", "stats">>,
                body |-> FALSE],
     create_memory |-> [method |-> "POST", path |-> <<"v1", "memories">>,
                        body |-> TRUE],
     get_memory |-> [method |-> "GET", path |-> <<"v1", "memories", "{}">>,
                     body |-> FALSE],
     update_memory |-> [method |-> "PUT",
                        path |-> <<"v1", "memories", "{}">>, body |-> TRUE],
     delete_memory |-> [method |-> "DELETE",
                        path |-> <<"v1", "memories", "{}">>,
                        body |-> FALSE],
     search_memories |-> [method |-> "POST",
                          path |-> <<"v1", "memories", "search">>,
                          body |-> TRUE],
     create_namespace |-> [method |-> "POST",
                           path |-> <<"v1", "namespaces">>, body |-> TRUE],
     get_namespace |-> [method |-> "GET",
                        path |-> <<"v1", "namespaces", "{}">>,
                        body |-> FALSE],
     update_namespace |-> [method |-> "PUT",
                           path |-> <<"v1", "namespaces", "{}">>,
                           body |-> TRUE],
     delete_namespace |-> [method |-> "DELETE",
                           path |-> <<"v1", "namespaces", "{}">>,
                           body |-> FALSE],
     list_namespaces |-> [method |-> "GET", path |-> <<"v1", "namespaces">>,
                          body |-> FALSE],
     list_namespace_memories |->
         [method |-> "GET", path |-> <<"v1", "namespaces", "{}", "memories">>,
          body |-> FALSE],
     get_context |-> [method |-> "POST", path |-> <<"v1", "context">>,
                      body |-> TRUE]]

\* The path is the template with the identifier id in place of "{}".
MatchesTemplate(path, template, id) ==
    LET segs == Segments(path)
    IN /\ Len(path) > 0
       /\ Head(path) = "/"
       /\ Len(segs) = Len(template)
       /\ \A i \in 1..Len(template) :
            IF template[i] = "{}"
            THEN Encoded(segs[i]) /\ unquote(segs[i]) = id
            ELSE segs[i] = <<template[i]>>

\* C9: for every non-empty identifier the path of get_memory, update_memory,
\* delete_memory, get_namespace, update_namespace, delete_namespace and
\* list_namespace_memories has as many segments as the endpoint template,
\* and the segment of the identifier is its percent-encoding: it decodes to
\* the identifier and holds none of "/", "?", "#", " " and no "%" other than
\* the one opening an escape.
C9_IdentifierIsOneEncodedSegment ==
    qout # <<>> =>
        /\ Len(Segments(qout)) = Len(Endpoint[qin.op].path)
        /\ \A i \in 1..Len(Segments(qout)) :
              Endpoint[qin.op].path[i] = "{}" =>
                  /\ Encoded(Segments(qout)[i])
                  /\ unquote(Segments(qout)[i]) = qin.id
        /\ Cardinality({i \in 1..Len(qout) : qout[i] = "/"})
              = Len(Endpoint[qin.op].path)

C9_Witness ==
    /\ qin.op = "list_namespace_memories"
    /\ qin.id = <<"a", "/">>
    /\ qout = <<"/", "v1", "/", "namespaces", "/", "a", "%", "2", "F",
                "/", "memories">>

\* The operation whose request a convenience method makes.
Wraps ==
    [remember |-> "create_memory", recall |-> "get_context",
     forget |-> "delete_memory"]

\* C10: every operation issues its request with the method and the path of
\* the interface table, and with a JSON body exactly where the table lists
\* one; GET and DELETE requests carry no body.  A convenience method issues
\* the request of the operation it wraps.
C10_InterfaceTable ==
    last.request # None =>
        LET req == the(last.request)
            e == Endpoint[IF last.op \in DOMAIN Wraps THEN Wraps[last.op]
                          ELSE last.op]
        IN /\ req.method = e.method
           /\ MatchesTemplate(req.path, e.path,
                              IF last.id = None THEN <<>> ELSE the(last.id))
           /\ req.json # None <=> e.body
           /\ req.method \in {"GET", "DELETE"} => req.json = None

C10_Witness ==
    /\ last.client = "AsyncMAIAClient"
    /\ last.op = "update_memory"
    /\ last.id = Some(<<"/">>)
    /\ last.request # None
    /\ the(last.request).method = "PUT"
    /\ the(last.request).path = <<"/", "v1", "/", "memories", "/",
                                   "%", "2", "F">>
    /\ the(last.request).json # None

\* C11: for an APIError with any status code and any code, is_not_found() is
\* true exactly when the status is 404 or the code is NOT_FOUND,
\* is_already_exists() exactly when the status is 409 or the code is
\* ALREADY_EXISTS, is_invalid_input() exactly when the status is 400 or the
\* code is INVALID_INPUT, and is_server_error() exactly when the status is
\* 500 or more; a 404 with code NOT_FOUND is not-found and neither
\* already-exists nor invalid-input, and a 500 without a code is a server
\* error and not not-found.
C11_Classification ==
    eout.asked =>
        /\ eout.is_not_found <=>
               (ein.status_code = 404 \/ ein.code = {"NOT_FOUND"})
        /\ eout.is_already_exists <=>
               (ein.status_code = 409 \/ ein.code = {"ALREADY_EXISTS"})
        /\ eout.is_invalid_input <=>
               (ein.status_code = 400 \/ ein.code = {"INVALID_INPUT"})
        /\ eout.is_server_error <=> ~(ein.status_code < 500)
        /\ (ein.status_code = 404 /\ ein.code = {"NOT_FOUND"}) =>
               /\ eout.is_not_found
               /\ ~eout.is_already_exists
               /\ ~eout.is_invalid_input
        /\ (ein.status_code = 500 /\ ein.code = {}) =>
               /\ eout.is_server_error
               /\ ~eout.is_not_found

C11_Witness ==
    /\ eout.asked
    /\ ein.status_code = 500
    /\ ein.code = None
    /\ eout.is_server_error
    /\ ~eout.is_not_found

\* C12: an error raised by an operation because of a server response (a
\* status of 400 or more) is always a plain APIError, never the subclass
\* NotFoundError or AlreadyExistsError, also for a 404; get_memory answered
\* with 404 and {"error":"memory not found","code":"NOT_FOUND"} raises an
\* APIError whose is_not_found() is true.
C12_PlainAPIError ==
    /\ last.outcome.exc \notin {"NotFoundError", "AlreadyExistsError"}
    /\ (last.transport.kind = "response" /\ last.transport.status_code >= 400)
          => /\ last.outcome.kind = "raise"
             /\ last.outcome.exc = "APIError"
    /\ ( /\ last.op = "get_memory"
         /\ last.transport.kind = "response"
         /\ last.transport.status_code = 404
         /\ last.transport.text =
                "{\"error\":\"memory not found\",\"code\":\"NOT_FOUND\"}" )
          => /\ last.outcome.exc = "APIError"
             /\ is_not_found(last.outcome)

\* C14: remember with namespace or content empty or None, recall with query
\* empty or None and forget with id empty or None raise ValidationError
\* whose field names that argument, on either client, and no HTTP request is
\* issued.
C14_WrapperValidation ==
    [][(IsCall /\ EmptyArguments(last') # {}) =>
          /\ last'.outcome.kind = "raise"
          /\ last'.outcome.exc = "ValidationError"
          /\ last'.outcome.field \in EmptyArguments(last')
          /\ last'.request = None
          /\ sent' = sent]_vars

\* Call l made the request of plan, or none when plan raises, and ended as
\* plan ends for the answer of the transport that l got.
SameAs(l, plan) ==
    IF plan.raise # None
    THEN /\ l.request = None
         /\ l.outcome = the(plan.raise)
    ELSE /\ l.request = Some([method |-> plan.method, path |-> plan.path,
                              json |-> plan.json, params |-> plan.params])
         /\ l.outcome = Returned(l.client, plan, l.transport).outcome

\* C15: a convenience method makes exactly the request of the operation it
\* pre-fills and ends as that operation ends: remember(namespace, content)
\* as create_memory with namespace, content, type semantic, source user,
\* confidence 1.0 and no other field; recall as get_context with query and
\* exactly the optional arguments given, unchanged; forget(id) as
\* delete_memory(id).
C15_WrappersPrefill ==
    /\ (last.op = "remember" /\ EmptyArguments(last) = {}) =>
          LET a == the(last.input)
              input == [namespace |-> the(a.namespace),
                        content |-> the(a.content),
                        type |-> {"semantic"}, metadata |-> {}, tags |-> {},
                        confidence |-> {"1.0"}, source |-> {"user"}]
          IN /\ SameAs(last, IF Sync(last.client) THEN create_memory(input)
                             ELSE async_create_memory(input))
             /\ the(last.request).method = "POST"
             /\ the(last.request).path = <<"/", "v1", "/", "memories">>
             /\ the(the(last.request).json) =
                    [namespace |-> the(a.namespace),
                     content |-> the(a.content), type |-> "semantic",
                     source |-> "user", confidence |-> "1.0"]
    /\ (last.op = "recall" /\ EmptyArguments(last) = {}) =>
          LET a == the(last.input)
              input == [query |-> the(a.query), namespace |-> a.namespace,
                        token_budget |-> a.token_budget,
                        system_prompt |-> a.system_prompt,
                        include_scores |-> a.include_scores,
                        min_score |-> a.min_score]
              json == the(the(last.request).json)
              given == {f \in DOMAIN a \ {"query"} : a[f] # {}}
          IN /\ SameAs(last, IF Sync(last.client) THEN get_context(input)
                             ELSE async_get_context(input))
             /\ the(last.request).method = "POST"
             /\ the(last.request).path = <<"/", "v1", "/", "context">>
             /\ DOMAIN json = {"query"} \cup given
             /\ json.query = the(a.query)
             /\ \A f \in given : json[f] = the(a[f])
    /\ last.op = "forget" =>
          SameAs(last, IF Sync(last.client) THEN delete_memory(last.id)
                       ELSE async_delete_memory(last.id))

C15_Witness ==
    /\ last.client = "AsyncMAIAClient"
    /\ last.op = "remember"
    /\ the(last.input) = [namespace |-> {<<"a">>}, content |-> {<<"a">>}]
    /\ last.transport.status_code = 201
    /\ last.outcome.kind = "return"
    /\ last.outcome.value # None

\* C13: MAIAClient and AsyncMAIAClient behave the same: whatever operation
\* one client was called with, whatever the arguments and whatever the
\* transport answered, the other client called the same way and answered the
\* same way makes the same request (method, path, body, query parameters)
\* or none, and ends with the same result or the same error with the same
\* fields.
C13_SyncAsyncIdentical ==
    last # NoCall =>
        IF Sync(last.client)
        THEN SameAs([last EXCEPT !.client = "AsyncMAIAClient"],
                    async_plan(last))
        ELSE SameAs([last EXCEPT !.client = "MAIAClient"], sync_plan(last))

C13_Witness ==
    /\ last.client = "MAIAClient"
    /\ last.op = "delete_namespace"
    /\ last.id = Some(<<>>)
    /\ last.outcome.exc = "ValidationError"
    /\ SameAs([last EXCEPT !.client = "AsyncMAIAClient"], async_plan(last))

\* The Optional fields of the input object of each operation with a body.
OptionalFields ==
    [create_memory |-> {"type", "metadata", "tags", "confidence", "source"},
     update_memory |-> {"content", "metadata", "tags", "confidence"},
     search_memories |->
        {"query", "namespace", "types", "tags", "limit", "offset"},
     create_namespace |-> {"parent", "template", "config"},
     update_namespace |-> {},
     get_context |->
        {"namespace", "token_budget", "system_prompt", "include_scores",
         "min_score"}]

\* The Optional fields of a NamespaceConfig.
ConfigOptionalFields ==
    {"token_budget", "max_memories", "retention_days", "allowed_types",
     "custom_scoring"}

C16_WitnessNoInput ==
    /\ last.op = "search_memories"
    /\ last.input = None
    /\ last.request # None
    /\ DOMAIN the(the(last.request).json) = {}

\* C17: a client used in a with / async with statement: entering binds the
\* client itself and closes nothing; leaving calls close on the underlying
\* httpx client exactly once, when the body ended normally and when the call
\* under way in it raised (ValidationError, NetworkError, APIError or any
\* other exception), and that exception is raised again by the statement.
C17_ScopeClosesOnce ==
    [][\A c \in Clients :
          /\ (scope[c].state = "out" /\ scope'[c].state = "in") =>
                 /\ scope'[c].target = c
                 /\ closes' = closes
          /\ (scope[c].state = "in" /\ scope'[c].state # "in") =>
                 /\ scope'[c].state = "left"
                 /\ closes[c] = 0
                 /\ closes'[c] = 1
                 /\ \A d \in Clients \ {c} : closes'[d] = closes[d]
                 /\ scope'[c].raised =
                        IF last.client = c /\ last.outcome.kind = "raise"
                        THEN {last.outcome.exc} ELSE {}
                 /\ last' = last
          /\ (scope[c].state = "left" /\ scope'[c].state = "left") =>
                 closes'[c] = 1
      ]_vars

C17_Witness ==
    /\ scope["AsyncMAIAClient"].state = "left"
    /\ scope["AsyncMAIAClient"].raised = Some("APIError")
    /\ closes["AsyncMAIAClient"] = 1
    /\ scope["MAIAClient"].state = "left"
    /\ scope["MAIAClient"].raised = None
    /\ closes["MAIAClient"] = 1
    /\ last.client = "AsyncMAIAClient"
    /\ last.outcome.exc = "APIError"

\* C20: no call of an operation, whether it returns or raises
\* ValidationError, NetworkError or APIError, changes what is visible of a
\* client: base_url (the constructor argument without trailing slashes) and
\* the open or closed state of every client are the same after the call as
\* before; only close changes the open or closed state, and only of the
\* client it is called on.
C20_OperationsChangeNothing ==
    [][/\ base_url' = base_url
       /\ base_url = [c \in Clients |-> <<"http://localhost:8080">>]
       /\ IsCall => /\ closes' = closes
                    /\ scope' = scope
                    /\ closes[last'.client] = 0
       /\ closes' # closes =>
             /\ \E c \in Clients :
                    closes' = [closes EXCEPT ![c] = closes[c] + 1]
             /\ last' = last
             /\ sent' = sent
      ]_vars

C20_Witness ==
    /\ closes = [MAIAClient |-> 1, AsyncMAIAClient |-> 0]
    /\ last.client = "AsyncMAIAClient"
    /\ last.op = "update_memory"
    /\ last.outcome.exc = "APIError"
    /\ base_url["AsyncMAIAClient"] = <<"http://localhost:8080">>

\* C18: calls in flight on one AsyncMAIAClient are independent.  When the
\* call in a slot ends, it is the call that was made (same operation,
\* arguments and request), it ends as a call made alone with the same
\* arguments and answered the same way ends, and the other calls in flight
\* are untouched; and whichever calls are in flight, each of them can be the
\* next to be answered: the client imposes no order.
C18_ConcurrentCallsIndependent ==
    [][\A s \in Slots :
          /\ inflight[s] # NoCall => ENABLED AsyncResume(s)
          /\ (inflight[s] # NoCall /\ inflight'[s] = NoCall) =>
                 /\ last'.op = inflight[s].op
                 /\ last'.id = inflight[s].id
                 /\ last'.input = inflight[s].input
                 /\ last'.request = inflight[s].request
                 /\ SameAs([last' EXCEPT !.client = "MAIAClient"],
                           sync_plan(inflight[s]))
                 /\ \A t \in Slots \ {s} : inflight'[t] = inflight[t]
                 /\ sent' = sent
      ]_vars

\* Two calls are in flight, the one made second was answered first, and
\* each ended by its own answer.
C18_Witness ==
    /\ inflight[1].op = "get_memory"
    /\ inflight[2] = NoCall
    /\ last.op = "remember"
    /\ last.transport.status_code = 201
    /\ last.outcome.kind = "return"
    /\ sent["AsyncMAIAClient"] = 2

MemoryOps == {"create_memory", "get_memory", "update_memory", "remember"}
MemoryRoundTripFields ==
    {"id", "namespace", "content", "type", "access_count", "confidence",
     "source"}

\* Whether the JSON value doc is an object with every required field of
\* Memory, each of the JSON kind the field is declared with.
HasMemoryFields(doc) ==
    /\ doc.t = "object"
    /\ \A f \in DOMAIN Schema["Memory"].required :
          /\ f \in DOMAIN doc.o
          /\ accepts(Schema["Memory"].required[f], doc.o[f])

C22_ConvenienceErrors ==
    /\ (eout.built /\ ein.cls = "NotFoundError") =>
          /\ isinstance(eout.error.exc, "APIError")
          /\ eout.error.kind = "raise"
          /\ eout.error.status_code = 404
          /\ eout.error.code = Some("NOT_FOUND")
          /\ eout.error.message = ein.resource \o " not found: " \o ein.id
          /\ is_not_found(eout.error)
          /\ eout.error.resource = ein.resource
          /\ eout.error.id = ein.id
          /\ eout.shown =>
                eout.str = ein.resource \o " not found: " \o ein.id
                              \o " (NOT_FOUND)"
    /\ (eout.built /\ ein.cls = "AlreadyExistsError") =>
          /\ isinstance(eout.error.exc, "APIError")
          /\ eout.error.kind = "raise"
          /\ eout.error.status_code = 409
          /\ eout.error.code = Some("ALREADY_EXISTS")
          /\ eout.error.message =
                ein.resource \o " already exists: " \o ein.id
          /\ is_already_exists(eout.error)
          /\ eout.error.resource = ein.resource
          /\ eout.error.id = ein.id
          /\ eout.shown =>
                eout.str = ein.resource \o " already exists: " \o ein.id
                              \o " (ALREADY_EXISTS)"
    /\ (eout.shown /\ ein.cls = "APIError") =>
          eout.str = IF ein.code \in {None, Some("")} THEN ein.message
                     ELSE ein.message \o " (" \o the(ein.code) \o ")"

C22_Witness ==
    /\ eout.shown
    /\ ein.cls = "NotFoundError"
    /\ ein.resource = "memory"
    /\ ein.id = "123"
    /\ eout.str = "memory not found: 123 (NOT_FOUND)"

C22_WitnessNoCode ==
    /\ eout.shown
    /\ ein.cls = "APIError"
    /\ ein.status_code = 500
    /\ ein.code = None
    /\ eout.str = "internal error"

\* The fields of the input object obj that are set, required ones included,
\* are members of the JSON body with the value they were set to; a nested
\* config likewise.
ValuesUnchanged(op, obj, json) ==
    /\ \A f \in DOMAIN obj \ (OptionalFields[op] \cup {"config"}) :
          f \in DOMAIN json /\ json[f] = obj[f]
    /\ \A f \in OptionalFields[op] \ {"config"} :
          obj[f] # None => (f \in DOMAIN json /\ json[f] = the(obj[f]))
    /\ ("config" \in DOMAIN obj
           /\ (op = "update_namespace" \/ obj.config # None)) =>
          \E cfg \in {IF op = "update_namespace" THEN obj.config
                      ELSE the(obj.config)} :
             /\ "config" \in DOMAIN json
             /\ json.config.inherit_from_parent = cfg.inherit_from_parent
             /\ \A f \in ConfigOptionalFields :
                   cfg[f] # None =>
                      /\ f \in DOMAIN json.config
                      /\ json.config[f] = the(cfg[f])

\* C23: an operation whose required fields are all non-empty raises no
\* ValidationError and hands its request to the transport with the values
\* as given: the identifier is the decoded path segment, every field set is
\* in the body with its value.  This holds for whitespace-only identifiers
\* and identifiers with a slash, a confidence outside [0, 1], a token_budget,
\* max_memories or retention_days of zero or less, a parent that does not
\* exist and an update input with no field set.
C23_OnlyNonEmptinessChecked ==
    (qout # <<>> /\ EmptyRequired(qin) = {}) =>
        \E p \in {qout[1]} :
           /\ p.raise = None
           /\ p.method = Endpoint[qin.op].method
           /\ MatchesTemplate(p.path, Endpoint[qin.op].path,
                              IF qin.id = None THEN <<>> ELSE the(qin.id))
           /\ Endpoint[qin.op].body <=> p.json # None
           /\ Endpoint[qin.op].body =>
                 ValuesUnchanged(qin.op, the(qin.input), the(p.json))

C23_Witness ==
    /\ qout # <<>>
    /\ qin.op = "update_memory"
    /\ qin.id = Some(<<" ", "/">>)
    /\ the(qin.input).content = None
    /\ the(qin.input).confidence = None
    /\ qout[1].raise = None
    /\ DOMAIN the(qout[1].json) = {}

C23_WitnessOutOfRange ==
    /\ qout # <<>>
    /\ qin.op = "create_memory"
    /\ the(qin.input).namespace = <<" ">>
    /\ the(qin.input).confidence = Some("1.5")
    /\ qout[1].raise = None
    /\ the(qout[1].json).confidence = "1.5"

\* The namespace or content call l of create_memory or remember was given:
\* a str, or None (remember only).
GivenText(l, f) ==
    IF l.op = "remember" THEN the(l.input)[f] ELSE Some(the(l.input)[f])

\* C24: create_memory and remember test namespace first and content second
\* and report one field: with namespace empty the ValidationError names
\* "namespace", whether content is empty too or not, never "content";
\* "content" is named only when namespace is non-empty and content is empty;
\* either way no request is made.
C24_NamespaceBeforeContent ==
    [][(IsCall /\ last'.op \in {"create_memory", "remember"}) =>
          /\ (GivenText(last', "namespace") = Some(<<>>)
                /\ GivenText(last', "content") # None) =>
                /\ last'.outcome.kind = "raise"
                /\ last'.outcome.exc = "ValidationError"
                /\ last'.outcome.field = "namespace"
                /\ last'.outcome.message = "namespace is required"
                /\ last'.request = None
          /\ (last'.outcome.kind = "raise"
                /\ last'.outcome.exc = "ValidationError"
                /\ last'.outcome.field = "content") =>
                /\ truthy_str(GivenText(last', "namespace"))
                /\ GivenText(last', "content") = Some(<<>>)
                /\ last'.request = None
          /\ (truthy_str(GivenText(last', "namespace"))
                /\ GivenText(last', "content") = Some(<<>>)) =>
                /\ last'.outcome.kind = "raise"
                /\ last'.outcome.exc = "ValidationError"
                /\ last'.outcome.field = "content"]_vars

C24_Witness ==
    /\ last.op = "create_memory"
    /\ the(last.input).namespace = <<>>
    /\ the(last.input).content = <<>>
    /\ last.outcome.exc = "ValidationError"
    /\ last.outcome.field = "namespace"
    /\ last.request = None

C24_WitnessRemember ==
    /\ last.op = "remember"
    /\ last.client = "AsyncMAIAClient"
    /\ the(last.input).namespace = Some(<<>>)
    /\ the(last.input).content = Some(<<>>)
    /\ last.outcome.exc = "ValidationError"
    /\ last.outcome.field = "namespace"

\* The transport answers with the given status and body.
Answer(status_code, text) ==
    [kind |-> "response", cause |-> "", status_code |-> status_code,
     text |-> text]

\* C25: delete_memory, delete_namespace and forget answered with a status
\* below 400 and a body that is empty or JSON return None whatever the body
\* says: the call made succeeds with no value, and the same call answered
\* {"deleted": false} ends exactly as when answered {"deleted": true}.
C25_DeleteIgnoresBody ==
    (last.op \in {"delete_memory", "delete_namespace", "forget"}
       /\ last.request # None) =>
        \E plan \in {IF Sync(last.client) THEN sync_plan(last)
                     ELSE async_plan(last)} :
           /\ (/\ last.transport.kind = "response"
               /\ last.transport.status_code < 400
               /\ \/ last.transport.text = ""
                  \/ json_loads(last.transport.text).ok) =>
                 last.outcome = Return(None)
           /\ \A status_code \in {s \in Statuses : s < 400} :
                 /\ Returned(last.client, plan,
                             Answer(status_code, "{\"deleted\":false}"))
                      = Returned(last.client, plan,
                                 Answer(status_code, "{\"deleted\":true}"))
                 /\ Returned(last.client, plan,
                             Answer(status_code, "{\"deleted\":false}")).outcome
                      = Return(None)

C25_Witness ==
    /\ last.op = "delete_namespace"
    /\ last.transport.status_code = 200
    /\ last.transport.text = "{\"deleted\":false}"
    /\ last.outcome = Return(None)
====
